---- MODULE Spec2Model ----
(***************************************************************************)
(* The present loop of space-thing: Window::draw, recreate_swapchain and   *)
(* Drop for Window (src/src/gfx/window.rs), driven by the winit event loop *)
(* of amain (src/src/main.rs), running against a GPU queue that executes   *)
(* the submitted command buffers asynchronously.                           *)
(*                                                                         *)
(* Window::draw is split at the calls where the GPU is observed (acquire,  *)
(* fence wait) or handed work (submit, present); pc is the position of the *)
(* main thread between those calls.  Vulkan handles are modelled by the    *)
(* swapchain generation in which the object was created.                   *)
(***************************************************************************)
EXTENDS Integers, Sequences, FiniteSets, TLC

\* ---------------------------------------------------------------- bounds
MaxGen == 2        \* swapchain generations created after Window::new
MaxCmds == 1       \* queued World::set_block commands
MaxQueue == 3      \* batches the modelled GPU queue holds
MaxReported == 3   \* entries of a list the surface reports (present modes, formats)
MaxLen == 2        \* elements of a slice given to ImmutableBuffer::from_slice
MaxPoolSize == 2   \* command buffers a thread's pool allocates per level
MaxDevices == 2    \* physical devices the instance enumerates
MaxSetCmds == 3    \* positions in World.set_cmds when a frame is recorded

\* ------------------------------------------------------ program constants
U32_MAX == 2147483647   \* u32::MAX sentinel of caps.current_extent.width (largest TLC integer)
volumes_len == 1        \* window.rs:164
MinImageCount == 1      \* caps.min_image_count reported by the surface

NoHandle == -1          \* vk::*::null() / nothing recorded

Slots == {0, 1}                       \* frame_data: [FrameData; 2]
Extent(w, h) == [width |-> w, height |-> h]
InitialSize == Extent(1440, 810)      \* main window size, window.rs:34
Sizes == {Extent(1440, 810), Extent(800, 600)}
MinExtent == Extent(1, 1)             \* caps.min_image_extent
MaxExtent == Extent(4096, 4096)       \* caps.max_image_extent
Positions == {<<0, 0, 5>>}           \* main.rs:29

AcquireResults == {"ok", "suboptimal", "out_of_date", "error"}
PresentResults == {"ok", "suboptimal", "out_of_date", "error"}

VARIABLES
    pc,                 \* position of the main thread
    frame,              \* Window.frame (bool as usize)
    recreate_swapchain, \* Window.recreate_swapchain
    frame_data,         \* Window.frame_data
    swapchain,          \* Window.swapchain
    image_views,        \* Window.image_views: [gen, len]
    pipeline,           \* Window.pipeline
    framebuffers,       \* Window.framebuffers: [gen, len]
    stencil_desc_pool,  \* Window.stencil_desc_pool
    stencil_desc_sets,  \* Window.stencil_desc_sets.len()
    image_extent,       \* Window.image_extent
    destroyed,          \* handles passed to a vkDestroy* call
    gen,                \* number of swapchains created so far - 1
    cur,                \* draw's local `frame` (slot index of this call)
    image_idx,          \* draw's local image_idx
    acq,                \* result of this call's acquire_next_image
    pres,               \* result of this call's queue_present
    entry_swapchain,    \* Window.swapchain at entry of the current draw call
    panic_site,         \* the call whose failure panicked
    set_cmds,           \* World.set_cmds
    queue,              \* GPU queue: submitted, unretired batches in submission order
    window_size,        \* winit window inner size (physical pixels)
    surface_caps,       \* what the surface reports to get_caps
    surface_format,     \* Window.surface_format
    swapchain_ci,       \* the create info of the last create_swapchain call
    built_extent,       \* the extents the pipeline and the framebuffers were created with
    swapchain_destroys, \* destroy_swapchain calls so far, for each swapchain created
    created_for,        \* what get_caps and the window reported when it was created
    control,            \* the event loop's ControlFlow
    sync,               \* the calls this draw call has made and the slots whose objects it gave them
    submitted_slot,     \* the slot of the last queue_submit
    waits_ahead,        \* per-frame fence waits so far minus queue submissions so far
    selected,           \* the last selection made from what a surface reports
    up_path,            \* the upload function that runs: from_slice or image
    up_pc,              \* position of the upload
    data,               \* from_slice's data / what cb writes
    cpubuf,             \* bytes of the staging buffer's memory
    buf,                \* bytes of the destination's memory
    region,             \* the copy region recorded into cmd
    fence_signaled,     \* state of the upload fence
    gpu,                \* the copy submission: idle, pending, done
    freed,              \* upload objects passed to a destroy/free call
    status,             \* what the last get_fence_status returned
    wake_queue,         \* wake tasks spawned on WAKER_THREAD and not yet run
    notified,           \* block_on's wake flag of the awaiting task
    was_pending,        \* the Fence future has returned Pending
    window_inner,       \* the WindowInner given to get_cmds
    cmds,               \* StaticVolume.cmds: (pipeline, command buffers)
    batches,            \* allocate_command_buffers calls of get_cmds so far
    got,                \* the last get_cmds call and what it returned
    pool,               \* CommandPoolInner of the thread: cmds and sizes per level
    free,               \* CommandPool.free[pool.vk]
    builders,           \* buffers held by CommandBufferBuilders
    built,              \* buffers held by CommandBuffers
    last_reset,         \* ok or panic right after a reset, panicked later on, none otherwise
    submission          \* the last SubmitFuture::end: its command buffer, its Fence, the GPU's progress

\* The present loop's variables.
presentVars == <<pc, frame, recreate_swapchain, frame_data, swapchain, image_views, pipeline,
                 framebuffers, stencil_desc_pool, stencil_desc_sets, image_extent, destroyed,
                 gen, cur, image_idx, acq, pres, entry_swapchain, panic_site, set_cmds, queue,
                 window_size, surface_caps, surface_format, swapchain_ci, created_for, control,
                 sync, submitted_slot, waits_ahead, built_extent, swapchain_destroys>>

\* The variables of the subsystems the present loop does not touch.
uploadVars == <<up_path, up_pc, data, cpubuf, buf, region, fence_signaled, gpu, freed,
                status, wake_queue, notified, was_pending>>

volumeVars == <<window_inner, cmds, batches, got>>

poolVars == <<pool, free, builders, built, last_reset, submission>>

auxVars == <<selected, uploadVars, volumeVars, poolVars>>

vars == <<presentVars, auxVars>>

createVars == <<surface_format, swapchain_ci, created_for, built_extent>>
windowVars == <<swapchain, image_views, pipeline, framebuffers, stencil_desc_pool,
                stencil_desc_sets, image_extent, destroyed, swapchain_destroys, gen, createVars>>
callVars == <<cur, image_idx, acq, pres, entry_swapchain, panic_site>>
obsVars == <<sync, submitted_slot, waits_ahead>>
envVars == <<window_size, surface_caps>>

\* ------------------------------------------------------------- helpers
Not(b) == 1 - b                         \* (!self.frame) as usize
Max(a, b) == IF a >= b THEN a ELSE b    \* std::cmp::max
Min(a, b) == IF a <= b THEN a ELSE b    \* std::cmp::min

\* FrameData::new: fence created SIGNALED, no secondaries, nothing recorded.
NothingRecorded ==
    [framebuffer |-> NoHandle, pipeline |-> NoHandle, stencil |-> NoHandle]

FrameDataNew ==
    [frame_finished |-> TRUE, secondaries |-> 0, recorded |-> NothingRecorded]

\* A draw call that has not called Vulkan yet.
SyncNone ==
    [steps |-> <<>>, acquire_signal |-> NoHandle, fence_waited |-> NoHandle,
     fence_reset |-> NoHandle, submit_wait |-> NoHandle, submit_signal |-> NoHandle,
     submit_fence |-> NoHandle, present_wait |-> NoHandle]

\* Mutant: the window size is used as it is, without clamping.
get_caps_Unclamped(caps, size) ==
    IF caps.current_extent.width # U32_MAX THEN caps.current_extent ELSE size

\* get_caps: the extent a swapchain is created with.
get_caps(caps, size) ==
    IF caps.current_extent.width # U32_MAX
    THEN caps.current_extent
    ELSE Extent(Max(caps.min_image_extent.width, Min(caps.max_image_extent.width, size.width)),
                Max(caps.min_image_extent.height, Min(caps.max_image_extent.height, size.height)))

\* What the surface reports for a window of the given size; fixed tells whether
\* the platform dictates the extent (Xlib, Win32) or leaves it to the swapchain
\* (Wayland: current_extent is the u32::MAX sentinel).
SurfaceCaps(size, fixed) ==
    [current_extent |-> IF fixed THEN size ELSE Extent(U32_MAX, U32_MAX),
     min_image_extent |-> MinExtent,
     max_image_extent |-> MaxExtent,
     min_image_count |-> MinImageCount]

\* Image counts create_swapchain may get for min_image_count(caps.min_image_count + 1):
\* what was asked for, or one image more.
ImageCounts(caps) == {caps.min_image_count + 1, caps.min_image_count + 2}

\* The objects of swapchain generation g.
SwapchainObjects(g) ==
    {<<"framebuffers", g>>, <<"pipeline", g>>, <<"image_views", g>>, <<"swapchain", g>>}

\* Option<T>: <<>> is None, <<x>> is Some(x).
BoundedSeqs(S, n) == UNION {[1..k -> S] : k \in 0..n}

\* Iterator::min_by_key: the fold keeps the element it holds unless the next
\* one's key is strictly smaller, so of several least elements the first wins.
RECURSIVE min_by_key(_, _)
min_by_key(s, key) ==
    IF s = <<>> THEN <<>>
    ELSE LET x == min_by_key(SubSeq(s, 1, Len(s) - 1), key)
             y == s[Len(s)]
         IN  IF x = <<>> THEN <<y>>
             ELSE IF key[x[1]] > key[y] THEN <<y>> ELSE x

\* Mutant: of several greatest elements the first wins.
RECURSIVE max_by_key_First(_, _)
max_by_key_First(s, key) ==
    IF s = <<>> THEN <<>>
    ELSE LET x == max_by_key_First(SubSeq(s, 1, Len(s) - 1), key)
             y == s[Len(s)]
         IN  IF x = <<>> THEN <<y>>
             ELSE IF key[x[1]] >= key[y] THEN x ELSE <<y>>

\* Iterator::max_by_key: the fold takes the next element unless the one it holds
\* has a strictly greater key, so of several greatest elements the last wins.
RECURSIVE max_by_key(_, _)
max_by_key(s, key) ==
    IF s = <<>> THEN <<>>
    ELSE LET x == max_by_key(SubSeq(s, 1, Len(s) - 1), key)
             y == s[Len(s)]
         IN  IF x = <<>> THEN <<y>>
             ELSE IF key[x[1]] > key[y] THEN x ELSE <<y>>

\* vk::PresentModeKHR
PresentModes == {"MAILBOX", "IMMEDIATE", "FIFO_RELAXED", "FIFO",
                 "SHARED_DEMAND_REFRESH", "SHARED_CONTINUOUS_REFRESH"}

\* Mutant: FIFO is ranked before MAILBOX.
PresentModeKey_FifoFirst ==
    [mode \in PresentModes |->
        CASE mode = "FIFO" -> 0
          [] mode = "IMMEDIATE" -> 1
          [] mode = "FIFO_RELAXED" -> 2
          [] mode = "MAILBOX" -> 3
          [] OTHER -> 4]

\* window.rs:443-449  the key create_swapchain ranks the present modes by.
PresentModeKey ==
    [mode \in PresentModes |->
        CASE mode = "MAILBOX" -> 0
          [] mode = "IMMEDIATE" -> 1
          [] mode = "FIFO_RELAXED" -> 2
          [] mode = "FIFO" -> 3
          [] OTHER -> 4]

\* vk::SurfaceFormatKHR
SurfaceFormat(f, cs) == [format |-> f, color_space |-> cs]
PreferredFormat == SurfaceFormat("B8G8R8A8_UNORM", "SRGB_NONLINEAR")
ReportableFormats ==
    {PreferredFormat,
     SurfaceFormat("B8G8R8A8_SRGB", "SRGB_NONLINEAR"),
     SurfaceFormat("R8G8B8A8_UNORM", "SRGB_NONLINEAR"),
     SurfaceFormat("B8G8R8A8_UNORM", "EXTENDED_SRGB_LINEAR_EXT")}

\* window.rs:62-65  the key Window::new ranks the surface formats by (false < true).
SurfaceFormatKey ==
    [f \in ReportableFormats |->
        IF f.format = "B8G8R8A8_UNORM" /\ f.color_space = "SRGB_NONLINEAR" THEN 1 ELSE 0]

\* The formats the surface of the main window reports to Window::new.
SurfaceFormats == <<SurfaceFormat("B8G8R8A8_SRGB", "SRGB_NONLINEAR"), PreferredFormat,
                    SurfaceFormat("R8G8B8A8_UNORM", "SRGB_NONLINEAR")>>

\* Mutant: one image more than the swapchain being replaced has.
RequestedImageCount_Grow(caps) == image_views.len + 1

\* window.rs:453  .min_image_count(caps.min_image_count + 1)
RequestedImageCount(caps) == caps.min_image_count + 1

\* window.rs:451-465  the vk::SwapchainCreateInfoKHR create_swapchain builds.
SwapchainCreateInfo(caps, format, extent, old) ==
    [min_image_count |-> RequestedImageCount(caps),
     image_format |-> format.format,
     image_color_space |-> format.color_space,
     image_extent |-> extent,
     old_swapchain |-> old]

\* vk::BufferCopy
BufferCopy(size) == [src_offset |-> 0, dst_offset |-> 0, size |-> size]
NoRegion == BufferCopy(0)

\* No surface query has been answered yet.
NoSelection == [fn |-> "none", input |-> <<>>, output |-> <<>>]

\* Slot s has a submitted command buffer whose fence the GPU has not signalled.
InFlight(s) == \E i \in 1..Len(queue) : queue[i].slot = s

Init ==
    /\ pc = "idle"
    /\ frame = 0
    /\ recreate_swapchain = FALSE
    /\ frame_data = [s \in Slots |-> FrameDataNew]
    /\ swapchain = 0
    /\ \E n \in ImageCounts(SurfaceCaps(InitialSize, TRUE)) :
          /\ image_views = [gen |-> 0, len |-> n]
          /\ framebuffers = [gen |-> 0, len |-> n]
          /\ stencil_desc_sets = n
    /\ pipeline = 0
    /\ stencil_desc_pool = 0
    /\ window_size = InitialSize
    /\ surface_format = max_by_key(SurfaceFormats, SurfaceFormatKey)[1]
    /\ \E fixed \in BOOLEAN :
          /\ surface_caps = SurfaceCaps(InitialSize, fixed)
          /\ image_extent = get_caps(SurfaceCaps(InitialSize, fixed), InitialSize)
          /\ swapchain_ci = SwapchainCreateInfo(SurfaceCaps(InitialSize, fixed),
                                max_by_key(SurfaceFormats, SurfaceFormatKey)[1],
                                get_caps(SurfaceCaps(InitialSize, fixed), InitialSize), NoHandle)
          /\ created_for = [caps |-> SurfaceCaps(InitialSize, fixed), size |-> InitialSize]
          /\ built_extent = [pipeline |-> get_caps(SurfaceCaps(InitialSize, fixed), InitialSize),
                             framebuffers |-> get_caps(SurfaceCaps(InitialSize, fixed), InitialSize)]
    /\ destroyed = {}
    /\ swapchain_destroys = <<0>>
    /\ gen = 0
    /\ cur = 0
    /\ image_idx = 0
    /\ acq = "none"
    /\ pres = "none"
    /\ entry_swapchain = 0
    /\ panic_site = "none"
    /\ set_cmds = << <<0, 0, 5>> >>
    /\ queue = <<>>
    /\ control = "Poll"
    /\ sync = SyncNone
    /\ submitted_slot = NoHandle
    /\ waits_ahead = 0
    /\ selected = NoSelection
    /\ up_path = "none"
    /\ up_pc = "idle"
    /\ data = <<>>
    /\ cpubuf = <<>>
    /\ buf = <<>>
    /\ region = NoRegion
    /\ fence_signaled = FALSE
    /\ gpu = "idle"
    /\ freed = {}
    /\ status = "none"
    /\ wake_queue = 0
    /\ notified = FALSE
    /\ was_pending = FALSE
    /\ window_inner = [gen |-> 0, pipeline |-> 1, framebuffers |-> [i \in 1..2 |-> <<0, i>>]]
    /\ cmds = [pipeline |-> NoHandle, cmds |-> <<>>]
    /\ batches = 0
    /\ got = [call |-> 0, image_idx |-> 0, recorded |-> FALSE, result |-> <<>>, panicked |-> FALSE]
    /\ pool = [cmds |-> [l \in {"primary", "secondary"} |-> <<>>],
               size |-> [l \in {"primary", "secondary"} |-> 0]]
    /\ free = [l \in {"primary", "secondary"} |-> <<>>]
    /\ builders = {}
    /\ built = {}
    /\ last_reset = "none"
    /\ submission = [cmd |-> <<>>, resources |-> <<>>, holder |-> FALSE, gpu |-> "none",
                     fence |-> "none"]

\* ------------------------------------------------- Window::draw, step by step

\* Mutant: draw never looks at the flag.
NeedsRecreate_Never == FALSE

\* window.rs:127  if self.recreate_swapchain { self.recreate_swapchain(); }
NeedsRecreate == recreate_swapchain

\* Mutant: the closure's write always reaches the event loop's control flow.
StickyExit_Overwritten(current, written) == written

\* main.rs:41  event_loop.run hands the closure its control flow; winit makes
\* ControlFlow::Exit sticky: once it is Exit the closure writes to a dummy.
StickyExit(current, written) == IF current = "Exit" THEN "Exit" ELSE written

\* main.rs:41, 110  after the EventsCleared callback returned to position p the
\* event loop looks at the control flow and stops when it is Exit.
LoopNext(p) == IF p = "idle" /\ control = "Exit" THEN "exited" ELSE p

\* main.rs:42, 86-111: the event loop delivers EventsCleared and the closure calls draw.
DrawEnter ==
    /\ pc = "idle"
    /\ control' = StickyExit(control, "Poll")
    /\ NeedsRecreate => gen < MaxGen
    /\ pc' = IF NeedsRecreate THEN "recreate" ELSE "acquire"
    /\ acq' = "none"
    /\ pres' = "none"
    /\ entry_swapchain' = swapchain
    /\ cur' = 0
    /\ image_idx' = 0
    /\ sync' = SyncNone
    /\ UNCHANGED <<frame, recreate_swapchain, frame_data, windowVars, panic_site, set_cmds,
                   queue, envVars, submitted_slot, waits_ahead, auxVars>>

\* Mutant: recreate_swapchain waits for the slot the next frame will use.
RecreateWaitSlot_Current == frame

\* window.rs:307  the slot whose fence recreate_swapchain waits for.
RecreateWaitSlot == Not(frame)

\* Mutant: recreate_swapchain destroys without waiting.
RecreateWaited_NoWait == TRUE

\* window.rs:305-308  wait_for_fences(&[frame_data[!frame].frame_finished], false, !0)
\* has returned Ok.
RecreateWaited == frame_data[RecreateWaitSlot].frame_finished

\* Mutant: the stencil descriptor sets of the old swapchain are kept.
StencilSetsAfterRecreate_Kept(n) == stencil_desc_sets

\* window.rs:322-328  stencil_desc_sets.len() after recreate_swapchain got n images.
StencilSetsAfterRecreate(n) == IF n # image_views.len THEN n ELSE stencil_desc_sets

\* window.rs:303-339  recreate_swapchain: wait, destroy the old objects, create
\* the new ones from the surface's current capabilities.  The flag that asked
\* for the recreation is left as it is.
RecreateSwapchain ==
    /\ pc = "recreate"
    /\ RecreateWaited
    /\ \E n \in ImageCounts(surface_caps) :
          /\ destroyed' = destroyed \cup SwapchainObjects(gen)
                \cup (IF n # image_views.len THEN {<<"stencil_desc_pool", stencil_desc_pool>>} ELSE {})
          /\ stencil_desc_pool' = IF n # image_views.len THEN gen + 1 ELSE stencil_desc_pool
          /\ stencil_desc_sets' = StencilSetsAfterRecreate(n)
          /\ image_views' = [gen |-> gen + 1, len |-> n]
          /\ framebuffers' = [gen |-> gen + 1, len |-> n]
    /\ swapchain_destroys' = Append([swapchain_destroys EXCEPT ![swapchain + 1] = @ + 1], 0)
    /\ swapchain' = gen + 1
    /\ pipeline' = gen + 1
    /\ image_extent' = get_caps(surface_caps, window_size)
    /\ built_extent' = [pipeline |-> get_caps(surface_caps, window_size),
                        framebuffers |-> get_caps(surface_caps, window_size)]
    /\ swapchain_ci' = SwapchainCreateInfo(surface_caps, surface_format,
                            get_caps(surface_caps, window_size), swapchain)
    /\ created_for' = [caps |-> surface_caps, size |-> window_size]
    /\ UNCHANGED surface_format
    /\ gen' = gen + 1
    /\ pc' = "acquire"
    /\ UNCHANGED <<frame, recreate_swapchain, frame_data, callVars, set_cmds, queue, envVars,
                   control, obsVars, auxVars>>

\* window.rs:310-320  recreate_swapchain panics in an unwrap after the old
\* framebuffers, pipeline and image views were destroyed (create_swapchain fails).
RecreateFail ==
    /\ pc = "recreate"
    /\ RecreateWaited
    /\ destroyed' = destroyed \cup (SwapchainObjects(gen) \ {<<"swapchain", gen>>})
    /\ pc' = "panicked"
    /\ panic_site' = "recreate"
    /\ UNCHANGED <<frame, recreate_swapchain, frame_data, swapchain, image_views, pipeline,
                   framebuffers, stencil_desc_pool, stencil_desc_sets, image_extent, gen,
                   swapchain_destroys, createVars, cur, image_idx, acq, pres, entry_swapchain,
                   set_cmds, queue, envVars, control, obsVars, auxVars>>

\* window.rs:320-335  recreate_swapchain panics in an unwrap after the new
\* swapchain with n images was created and the old one destroyed: at "stencil"
\* in create_stencil_desc_pool (called when the image count changed, before the
\* new swapchain is stored), at "pipeline" in create_pipeline.
RecreateFailLate(n, site) ==
    /\ pc = "recreate"
    /\ RecreateWaited
    /\ site = "stencil" => n # image_views.len
    /\ destroyed' = destroyed \cup SwapchainObjects(gen)
          \cup (IF n # image_views.len THEN {<<"stencil_desc_pool", stencil_desc_pool>>} ELSE {})
    /\ swapchain_destroys' = Append([swapchain_destroys EXCEPT ![swapchain + 1] = @ + 1], 0)
    /\ gen' = gen + 1
    /\ swapchain_ci' = SwapchainCreateInfo(surface_caps, surface_format,
                            get_caps(surface_caps, window_size), swapchain)
    /\ created_for' = [caps |-> surface_caps, size |-> window_size]
    /\ IF site = "stencil"
       THEN UNCHANGED <<swapchain, image_views, stencil_desc_pool, stencil_desc_sets>>
       ELSE /\ swapchain' = gen + 1
            /\ image_views' = [gen |-> gen + 1, len |-> n]
            /\ stencil_desc_pool' = IF n # image_views.len THEN gen + 1 ELSE stencil_desc_pool
            /\ stencil_desc_sets' = StencilSetsAfterRecreate(n)
    /\ pc' = "panicked"
    /\ panic_site' = "recreate"
    /\ UNCHANGED <<frame, recreate_swapchain, frame_data, pipeline, framebuffers, image_extent,
                   surface_format, built_extent, cur, image_idx, acq, pres, entry_swapchain,
                   set_cmds, queue, envVars, control, obsVars, auxVars>>

\* Mutant: an out-of-date acquire is treated like a successful one.
AcquireNextPc_NoAbandon(res) ==
    CASE res \in {"ok", "suboptimal", "out_of_date"} -> "wait"
      [] OTHER -> "panicked"

\* window.rs:140-152  where draw continues after acquire_next_image returned res.
AcquireNextPc(res) ==
    CASE res \in {"ok", "suboptimal"} -> "wait"
      [] res = "out_of_date" -> "idle"
      [] OTHER -> "panicked"

\* Mutant: the suboptimal flag of a successful acquire is ignored.
AcquireSetsRecreate_OutOfDateOnly(res) == res = "out_of_date"

\* window.rs:142-149  the acquire results that set self.recreate_swapchain.
AcquireSetsRecreate(res) == res \in {"suboptimal", "out_of_date"}

\* window.rs:131-153  pick the slot, acquire the next image, handle the result.
Acquire(res, idx) ==
    /\ pc = "acquire"
    /\ cur' = frame
    /\ acq' = res
    /\ image_idx' = IF res \in {"ok", "suboptimal"} THEN idx ELSE image_idx
    /\ recreate_swapchain' = (recreate_swapchain \/ AcquireSetsRecreate(res))
    /\ pc' = LoopNext(AcquireNextPc(res))
    /\ panic_site' = IF AcquireNextPc(res) = "panicked" THEN "acquire" ELSE panic_site
    /\ sync' = [sync EXCEPT !.steps = Append(@, "acquire"),
                             !.acquire_signal = IF res \in {"ok", "suboptimal"} THEN frame ELSE @]
    /\ UNCHANGED <<frame, frame_data, windowVars, pres, entry_swapchain, set_cmds, queue,
                   envVars, control, submitted_slot, waits_ahead, auxVars>>

\* Mutant: draw does not wait for the slot's fence.
FenceWaited_NoWait(s) == TRUE

\* window.rs:155  wait_for_fences(&[frame_data.frame_finished], false, !0) returns.
FenceWaited(s) == frame_data[s].frame_finished

\* Mutant: the fence is not reset after the wait.
FenceAfterReset_NotReset == TRUE

\* window.rs:156  reset_fences: the fence's state afterwards.
FenceAfterReset == FALSE

\* Mutant: the parity is left as it is.
NextFrame_Same(f) == f

\* window.rs:157  self.frame = !self.frame
NextFrame(f) == Not(f)

\* Mutant: the wait is not counted.
AfterWait_Uncounted(n) == n

\* window.rs:155  one more wait_for_fences of the per-frame protocol.
AfterWait(n) == n + 1

\* window.rs:155-157  wait for the slot's fence, reset it, toggle the parity.
WaitFence ==
    /\ pc = "wait"
    /\ FenceWaited(cur)
    /\ frame_data' = [frame_data EXCEPT ![cur].frame_finished = FenceAfterReset]
    /\ frame' = NextFrame(frame)
    /\ pc' = "record"
    /\ sync' = [sync EXCEPT !.steps = @ \o <<"wait", "reset">>,
                             !.fence_waited = cur,
                             !.fence_reset = cur]
    /\ waits_ahead' = AfterWait(waits_ahead)
    /\ UNCHANGED <<recreate_swapchain, windowVars, callVars, set_cmds, queue, envVars, control,
                   submitted_slot, auxVars>>

\* Mutant: no secondary command buffers are allocated.
SecondariesAfterAlloc_Skipped(len) == len

\* window.rs:165-171  frame_data.secondaries.len() after the allocation step:
\* volumes_len - len buffers are appended when len < volumes_len.
SecondariesAfterAlloc(len) ==
    IF len < volumes_len THEN len + (volumes_len - len) ELSE len

\* Mutant: the loop reads the queued positions without removing them.
drain_Kept(cmdlist) == cmdlist

\* window.rs:220  world.set_cmds.drain(..): what is left in the Vec afterwards.
drain(cmdlist) == <<>>

\* window.rs:159-278  reset the slot's command pool, grow the secondary pool,
\* record the secondaries and the primary, draining world.set_cmds.
Record ==
    /\ pc = "record"
    /\ image_idx < framebuffers.len
    /\ image_idx < stencil_desc_sets
    /\ frame_data' = [frame_data EXCEPT
          ![cur].secondaries = SecondariesAfterAlloc(@),
          ![cur].recorded = [framebuffer |-> framebuffers.gen,
                             pipeline |-> pipeline,
                             stencil |-> IF Len(set_cmds) > 0 THEN stencil_desc_pool ELSE NoHandle]]
    /\ set_cmds' = drain(set_cmds)
    /\ pc' = "submit"
    /\ sync' = [sync EXCEPT !.steps = Append(@, "record")]
    /\ UNCHANGED <<frame, recreate_swapchain, windowVars, callVars, queue, envVars, control,
                   submitted_slot, waits_ahead, auxVars>>

\* Mutant: the submission waits on the other slot's image_available.
SubmitWait_OtherSlot(s) == Not(s)

\* window.rs:280  .wait_semaphores(&[frame_data.image_available]): the slot
\* whose semaphore the submission waits on.
SubmitWait(s) == s

\* window.rs:279-285  queue_submit(queue, &submits, frame_data.frame_finished).
Submit ==
    /\ pc = "submit"
    /\ Len(queue) < MaxQueue
    /\ queue' = Append(queue, [slot |-> cur, done |-> FALSE])
    /\ pc' = "present"
    /\ sync' = [sync EXCEPT !.steps = Append(@, "submit"),
                             !.submit_wait = SubmitWait(cur),
                             !.submit_signal = cur,
                             !.submit_fence = cur]
    /\ submitted_slot' = cur
    /\ waits_ahead' = waits_ahead - 1
    /\ UNCHANGED <<frame, recreate_swapchain, frame_data, windowVars, callVars, set_cmds,
                   envVars, control, auxVars>>

\* Mutant: the Err(ERROR_OUT_OF_DATE_KHR) arm of the present match is missing.
PresentNextPc_OutOfDateFatal(res) == IF res \in {"error", "out_of_date"} THEN "panicked" ELSE "idle"

\* window.rs:291-295  where draw ends after queue_present returned res.
PresentNextPc(res) == IF res = "error" THEN "panicked" ELSE "idle"

\* window.rs:292  the present results that set self.recreate_swapchain.
PresentSetsRecreate(res) == res \in {"suboptimal", "out_of_date"}

\* window.rs:287-296  queue_present and the handling of its result.
Present(res) ==
    /\ pc = "present"
    /\ pres' = res
    /\ recreate_swapchain' = (recreate_swapchain \/ PresentSetsRecreate(res))
    /\ pc' = LoopNext(PresentNextPc(res))
    /\ panic_site' = IF PresentNextPc(res) = "panicked" THEN "present" ELSE panic_site
    /\ sync' = [sync EXCEPT !.steps = Append(@, "present"), !.present_wait = cur]
    /\ UNCHANGED <<frame, frame_data, windowVars, cur, image_idx, acq, entry_swapchain,
                   set_cmds, queue, envVars, control, submitted_slot, waits_ahead, auxVars>>

\* window.rs:155-285, 308  one of the other Vulkan calls of draw fails and its
\* unwrap panics: wait_for_fences (in recreate_swapchain or in draw), reset_command_pool
\* or a recording call, queue_submit.
ApiFail ==
    /\ pc \in {"recreate", "wait", "record", "submit"}
    /\ panic_site' = pc
    /\ pc' = "panicked"
    /\ UNCHANGED <<frame, recreate_swapchain, frame_data, windowVars, cur, image_idx, acq,
                   pres, entry_swapchain, set_cmds, queue, envVars, control, obsVars, auxVars>>

\* Mutant: Drop waits for the slot the next frame would use.
DropWaitSlot_Current == frame

\* window.rs:346  the slot whose fence Drop waits for.
DropWaitSlot == Not(frame)

\* window.rs:341-365 and 399-407  Drop for Window: wait, dispose both slots,
\* destroy the swapchain objects.  Runs when the closure owning the window is
\* dropped, also while a panic unwinds.
Drop ==
    /\ pc \in {"idle", "exited", "panicked"}
    /\ frame_data[DropWaitSlot].frame_finished
    /\ destroyed' = destroyed
          \cup {<<"frame_data", s>> : s \in Slots}
          \cup {<<"stencil_desc_pool", stencil_desc_pool>>, <<"framebuffers", framebuffers.gen>>,
                <<"pipeline", pipeline>>, <<"image_views", image_views.gen>>,
                <<"swapchain", swapchain>>}
    /\ swapchain_destroys' = [swapchain_destroys EXCEPT ![swapchain + 1] = @ + 1]
    /\ pc' = "dropped"
    /\ UNCHANGED <<frame, recreate_swapchain, frame_data, swapchain, image_views, pipeline,
                   framebuffers, stencil_desc_pool, stencil_desc_sets, image_extent, gen,
                   createVars, callVars, set_cmds, queue, envVars, control, obsVars, auxVars>>

\* ------------------------------------------------------ the event loop's events

\* main.rs:60-85  a WindowEvent::Resized reaches the closure and falls into the
\* `_ => ()` arm; the window and what the surface reports have changed.
Resized(size) ==
    /\ pc = "idle"
    /\ size # window_size
    /\ window_size' = size
    /\ surface_caps' = SurfaceCaps(size, surface_caps.current_extent.width # U32_MAX)
    /\ control' = StickyExit(control, "Poll")
    /\ UNCHANGED <<pc, frame, recreate_swapchain, frame_data, windowVars, callVars,
                   set_cmds, queue, obsVars, auxVars>>

\* world.rs:63-65  World::set_block
set_block(pos) ==
    /\ pc = "idle"
    /\ Len(set_cmds) < MaxCmds
    /\ set_cmds' = Append(set_cmds, pos)
    /\ UNCHANGED <<pc, frame, recreate_swapchain, frame_data, windowVars, callVars,
                   queue, envVars, control, obsVars, auxVars>>

\* main.rs:42, 61  a WindowEvent::CloseRequested reaches the closure.
CloseRequested ==
    /\ pc = "idle"
    /\ control' = StickyExit(StickyExit(control, "Poll"), "Exit")
    /\ UNCHANGED <<pc, frame, recreate_swapchain, frame_data, windowVars, callVars,
                   set_cmds, queue, envVars, obsVars, auxVars>>

\* --------------------------------------------------------------- the GPU

\* The GPU finishes executing a submitted command buffer; batches may finish
\* in any order.
GpuComplete(i) ==
    /\ i \in 1..Len(queue)
    /\ ~queue[i].done
    /\ queue' = [queue EXCEPT ![i].done = TRUE]
    /\ UNCHANGED <<pc, frame, recreate_swapchain, frame_data, windowVars, callVars,
                   set_cmds, envVars, control, obsVars, auxVars>>

\* The fence given to queue_submit is signalled once its batch and every batch
\* submitted before it have finished; the batch is then retired.
GpuRetire ==
    /\ Len(queue) > 0
    /\ Head(queue).done
    /\ frame_data' = [frame_data EXCEPT ![Head(queue).slot].frame_finished = TRUE]
    /\ queue' = Tail(queue)
    /\ UNCHANGED <<pc, frame, recreate_swapchain, windowVars, callVars, set_cmds, envVars,
                   control, obsVars, auxVars>>

Next ==
    \/ DrawEnter
    \/ RecreateSwapchain
    \/ RecreateFail
    \/ \E n \in ImageCounts(surface_caps), site \in {"stencil", "pipeline"} : RecreateFailLate(n, site)
    \/ \E res \in AcquireResults, idx \in {0, image_views.len - 1} : Acquire(res, idx)
    \/ WaitFence
    \/ Record
    \/ Submit
    \/ \E res \in PresentResults : Present(res)
    \/ ApiFail
    \/ Drop
    \/ \E size \in Sizes : Resized(size)
    \/ \E pos \in Positions : set_block(pos)
    \/ \E i \in 1..MaxQueue : GpuComplete(i)
    \/ GpuRetire

Spec == Init /\ [][Next]_vars

\* The present loop with the request to close the window.
NextLoop == Next \/ CloseRequested

SpecLoop == Init /\ [][NextLoop]_vars

\* The event loop keeps delivering EventsCleared, the calls draw makes return,
\* and the GPU finishes what was submitted to it.
SpecLoopFair ==
    /\ SpecLoop
    /\ WF_vars(DrawEnter)
    /\ WF_vars(RecreateSwapchain)
    /\ WF_vars(\E res \in AcquireResults, idx \in {0, image_views.len - 1} : Acquire(res, idx))
    /\ WF_vars(WaitFence)
    /\ WF_vars(Record)
    /\ WF_vars(Submit)
    /\ WF_vars(\E res \in PresentResults : Present(res))
    /\ WF_vars(\E i \in 1..MaxQueue : GpuComplete(i))
    /\ WF_vars(GpuRetire)

\* ------------------------------------- selections from what the surface reports
\* One query of the surface is answered: the input is what the surface reports,
\* the output what the code selects from it.

\* What get_physical_device_surface_capabilities may report.
ReportableCaps ==
    [current_extent : {Extent(U32_MAX, U32_MAX), Extent(U32_MAX, 600), Extent(800, 600),
                       Extent(1440, 810)},
     min_image_extent : {Extent(1, 1), Extent(1000, 500), Extent(2000, 2000)},
     max_image_extent : {Extent(1200, 700), Extent(4096, 4096)},
     min_image_count : {MinImageCount}]

\* window.rs:410-428  get_caps is called for a surface and a window.
SelectExtent(caps, size) ==
    /\ selected = NoSelection
    /\ selected' = [fn |-> "get_caps",
                    input |-> [caps |-> caps, size |-> size],
                    output |-> get_caps(caps, size)]
    /\ UNCHANGED <<presentVars, uploadVars, volumeVars, poolVars>>

\* window.rs:439-450  create_swapchain picks the present mode; unwrap panics on None.
SelectPresentMode(modes) ==
    /\ selected = NoSelection
    /\ selected' = [fn |-> "present_mode",
                    input |-> modes,
                    output |-> min_by_key(modes, PresentModeKey)]
    /\ UNCHANGED <<presentVars, uploadVars, volumeVars, poolVars>>

\* window.rs:58-66  Window::new picks the surface format; unwrap panics on None.
SelectSurfaceFormat(formats) ==
    /\ selected = NoSelection
    /\ selected' = [fn |-> "surface_format",
                    input |-> formats,
                    output |-> max_by_key(formats, SurfaceFormatKey)]
    /\ UNCHANGED <<presentVars, uploadVars, volumeVars, poolVars>>

\* vk::QueueFlags of the queue families a physical device may report.
QueueFamilies == {{"GRAPHICS", "COMPUTE", "TRANSFER"}, {"TRANSFER"}}

\* Mutant: the last family with the GRAPHICS flag is taken.
RECURSIVE GraphicsFamily_Last(_, _)
GraphicsFamily_Last(families, i) ==
    IF i >= Len(families) THEN <<>>
    ELSE LET later == GraphicsFamily_Last(families, i + 1)
         IN  IF later # <<>> THEN later
             ELSE IF "GRAPHICS" \in families[i + 1] THEN <<i>> ELSE <<>>

\* gfx.rs:101-105  .enumerate().filter(GRAPHICS).next(), scanning from index i.
RECURSIVE GraphicsFamily(_, _)
GraphicsFamily(families, i) ==
    IF i >= Len(families) THEN <<>>
    ELSE IF "GRAPHICS" \in families[i + 1] THEN <<i>>
    ELSE GraphicsFamily(families, i + 1)

\* gfx.rs:99-122  what Gfx::new makes of the enumerated devices: the device, the
\* family, and the family the queue and the two command pools are created for;
\* nothing when the index, an unwrap of the search or of a create call panics.
DeviceContext(devices, calls_ok) ==
    IF devices = <<>> THEN <<>>
    ELSE LET queue_family == GraphicsFamily(devices[1], 0)
         IN  IF queue_family = <<>> \/ ~calls_ok THEN <<>>
             ELSE <<[physical_device |-> 0,
                     queue_family |-> queue_family[1],
                     queue |-> queue_family[1],
                     cmdpool |-> queue_family[1],
                     cmdpool_transient |-> queue_family[1]]>>

\* gfx.rs:67-122  Gfx::new initialises the device.
GfxNew(devices, calls_ok) ==
    /\ selected = NoSelection
    /\ selected' = [fn |-> "Gfx::new",
                    input |-> [devices |-> devices, calls_ok |-> calls_ok],
                    output |-> DeviceContext(devices, calls_ok)]
    /\ UNCHANGED <<presentVars, uploadVars, volumeVars, poolVars>>

\* vk::Extent3D
Extent3D(w, h, d) == [width |-> w, height |-> h, depth |-> d]

\* Extents an image may be created with (every dimension at least 1).
ImageExtents ==
    {Extent3D(w, h, d) : w \in {1, 2, 3, 4, 7, 8, 511, 512, 4096, U32_MAX},
                         h \in {1, 2, 5, 512, 513, 4096},
                         d \in {1, 2, 16}}

\* The number of bits of x after its leading zeros.
RECURSIVE BitLength(_)
BitLength(x) == IF x = 0 THEN 0 ELSE 1 + BitLength(x \div 2)

\* u32::leading_zeros
leading_zeros(x) == 32 - BitLength(x)

\* Mutant: the mip chain stops one level early.
max_mipmaps_Floor(extent) ==
    31 - leading_zeros(Max(Max(extent.width, extent.height), extent.depth))

\* max_mipmaps: 32 - leading_zeros of the largest dimension.
max_mipmaps(extent) ==
    32 - leading_zeros(Max(Max(extent.width, extent.height), extent.depth))

\* The mip_levels create_device_local_image gives the image.
MipLevels(extent, mipmaps) == IF mipmaps THEN max_mipmaps(extent) ELSE 1

\* gfx.rs:213-224  create_device_local_image is called for an extent, with or
\* without mipmapping.
CreateImageMipLevels(extent, mipmaps) ==
    /\ selected = NoSelection
    /\ selected' = [fn |-> "mip_levels",
                    input |-> [extent |-> extent, mipmaps |-> mipmaps],
                    output |-> MipLevels(extent, mipmaps)]
    /\ UNCHANGED <<presentVars, uploadVars, volumeVars, poolVars>>

\* vk::ImageLayout values.
ImageLayouts == {"UNDEFINED", "GENERAL", "TRANSFER_DST_OPTIMAL", "SHADER_READ_ONLY_OPTIMAL",
                 "PRESENT_SRC_KHR"}

\* Mutant: only the two transitions of the upload are accepted.
transition_layout_PairsOnly(old_layout, new_layout) ==
    IF <<old_layout, new_layout>> \in {<<"UNDEFINED", "TRANSFER_DST_OPTIMAL">>,
                                       <<"TRANSFER_DST_OPTIMAL", "SHADER_READ_ONLY_OPTIMAL">>}
    THEN <<[cmd |-> "pipeline_barrier", old_layout |-> old_layout, new_layout |-> new_layout]>>
    ELSE <<>>

\* image.rs:95-133  the barrier transition_layout records; nothing when one of
\* the two matches reaches unimplemented!().
transition_layout(old_layout, new_layout) ==
    LET src == CASE old_layout = "UNDEFINED" -> <<"TOP_OF_PIPE">>
                 [] old_layout = "TRANSFER_DST_OPTIMAL" -> <<"TRANSFER">>
                 [] OTHER -> <<>>
        dst == CASE new_layout = "TRANSFER_DST_OPTIMAL" -> <<"TRANSFER">>
                 [] new_layout = "SHADER_READ_ONLY_OPTIMAL" -> <<"FRAGMENT_SHADER">>
                 [] OTHER -> <<>>
    IN  IF src = <<>> \/ dst = <<>> THEN <<>>
        ELSE <<[cmd |-> "pipeline_barrier", old_layout |-> old_layout, new_layout |-> new_layout]>>

\* image.rs:46-66  the commands create_device_local_image records into cmd.
ImageUploadCmds ==
    transition_layout("UNDEFINED", "TRANSFER_DST_OPTIMAL")
    \o <<[cmd |-> "copy_buffer_to_image", old_layout |-> "TRANSFER_DST_OPTIMAL",
          new_layout |-> "TRANSFER_DST_OPTIMAL"]>>
    \o transition_layout("TRANSFER_DST_OPTIMAL", "SHADER_READ_ONLY_OPTIMAL")

\* The layout of the image after the first n of these commands have executed,
\* starting in layout: a barrier moves it to new_layout when its old_layout is
\* UNDEFINED or the current layout; any other command leaves it.
RECURSIVE LayoutAfter(_, _, _)
LayoutAfter(cmdlist, n, layout) ==
    IF n = 0 THEN layout
    ELSE LET before == LayoutAfter(cmdlist, n - 1, layout)
             c == cmdlist[n]
         IN  IF c.cmd # "pipeline_barrier" THEN before
             ELSE IF c.old_layout \in {"UNDEFINED", before} THEN c.new_layout
             ELSE "INVALID"

\* image.rs:95-133  transition_layout is called for a pair of layouts.
TransitionLayout(old_layout, new_layout) ==
    /\ selected = NoSelection
    /\ selected' = [fn |-> "transition_layout",
                    input |-> <<old_layout, new_layout>>,
                    output |-> transition_layout(old_layout, new_layout)]
    /\ UNCHANGED <<presentVars, uploadVars, volumeVars, poolVars>>

\* image.rs:27-66  create_device_local_image records the upload of an image
\* created in initial_layout (UNDEFINED is what ImageCreateInfo defaults to).
RecordImageUpload(extent) ==
    /\ selected = NoSelection
    /\ selected' = [fn |-> "create_device_local_image",
                    input |-> [extent |-> extent, initial_layout |-> "UNDEFINED"],
                    output |-> ImageUploadCmds]
    /\ UNCHANGED <<presentVars, uploadVars, volumeVars, poolVars>>

\* The transition_layout that draw calls (device, cmd, image, level count, old
\* and new layout, source and destination stage): it records one barrier from
\* old_layout to new_layout between the two stages.
transition_layout_with_stages(old_layout, new_layout, src_stage, dst_stage) ==
    <<[cmd |-> "pipeline_barrier", old_layout |-> old_layout, new_layout |-> new_layout,
       src_stage |-> src_stage, dst_stage |-> dst_stage]>>

\* Mutant: the image is not returned to SHADER_READ_ONLY_OPTIMAL after the dispatch.
StencilCmds_NoReturn(set_cmd) ==
    transition_layout_with_stages("SHADER_READ_ONLY_OPTIMAL", "GENERAL",
                                  "FRAGMENT_SHADER", "COMPUTE_SHADER")
    \o <<[cmd |-> "dispatch", push_constants |-> set_cmd]>>

\* window.rs:221-263  what one iteration of the set_cmds loop records.
StencilCmds(set_cmd) ==
    transition_layout_with_stages("SHADER_READ_ONLY_OPTIMAL", "GENERAL",
                                  "FRAGMENT_SHADER", "COMPUTE_SHADER")
    \o <<[cmd |-> "dispatch", push_constants |-> set_cmd]>>
    \o transition_layout_with_stages("GENERAL", "SHADER_READ_ONLY_OPTIMAL",
                                     "COMPUTE_SHADER", "FRAGMENT_SHADER")

\* window.rs:204-277  the commands draw records into frame_data.primary when
\* world.set_cmds holds cmdlist: the loop over the drained positions, then the
\* render pass.
RECURSIVE PrimaryCmds(_)
PrimaryCmds(cmdlist) ==
    IF cmdlist = <<>>
    THEN <<[cmd |-> "begin_render_pass"], [cmd |-> "execute_commands"],
           [cmd |-> "end_render_pass"]>>
    ELSE StencilCmds(Head(cmdlist)) \o PrimaryCmds(Tail(cmdlist))

\* window.rs:204-277  draw records the primary command buffer of a frame; the
\* voxel image is in the layout create_device_local_image and every earlier
\* frame left it in.
RecordPrimary(cmdlist) ==
    /\ selected = NoSelection
    /\ selected' = [fn |-> "draw.primary",
                    input |-> [set_cmds |-> cmdlist, layout |-> "SHADER_READ_ONLY_OPTIMAL"],
                    output |-> PrimaryCmds(cmdlist)]
    /\ UNCHANGED <<presentVars, uploadVars, volumeVars, poolVars>>

\* gfx.rs:90-251  the objects Gfx::new creates and keeps, in creation order.
GfxNewCreates ==
    <<"instance", "device", "cmdpool", "cmdpool_transient", "voxels_sampler", "mats_sampler",
      "blocks_sampler", "gfx_desc_layout", "world_desc_layout", "pipeline_layout", "allocator",
      "triangle", "triangle_alloc", "vshader", "fshader", "stencil_shader",
      "stencil_desc_layout", "stencil_pipeline_layout", "stencil_pipeline",
      "blocks", "blocks_alloc", "blocks_view", "desc_pool">>

\* gfx.rs:270-298  the objects Drop for Gfx destroys or frees, in call order.
GfxDropCalls ==
    <<"blocks_view", "blocks", "blocks_alloc", "stencil_pipeline", "stencil_pipeline_layout",
      "stencil_shader", "fshader", "vshader", "triangle", "triangle_alloc", "allocator",
      "pipeline_layout", "stencil_desc_layout", "world_desc_layout", "gfx_desc_layout",
      "blocks_sampler", "mats_sampler", "voxels_sampler", "cmdpool_transient", "cmdpool",
      "desc_pool", "device", "instance">>

\* window.rs:56-104, 376-395  the objects Window::new creates, in creation order.
WindowNewCreates ==
    <<"surface", "render_pass", "swapchain", "image_views", "pipeline", "framebuffers",
      "stencil_desc_pool", "frame_data[0]", "frame_data[1]">>

\* window.rs:341-365  the objects Drop for Window destroys, in call order.
WindowDropCalls ==
    <<"frame_data[0]", "frame_data[1]", "stencil_desc_pool", "framebuffers", "pipeline",
      "image_views", "swapchain", "render_pass", "surface">>

\* gfx.rs:270-298, window.rs:341-365  an owner that was constructed is dropped.
Teardown(owner) ==
    /\ selected = NoSelection
    /\ selected' = [fn |-> "drop",
                    input |-> IF owner = "Gfx" THEN GfxNewCreates ELSE WindowNewCreates,
                    output |-> IF owner = "Gfx" THEN GfxDropCalls ELSE WindowDropCalls]
    /\ UNCHANGED <<presentVars, uploadVars, volumeVars, poolVars>>

NextSelect ==
    \/ \E caps \in ReportableCaps, size \in Sizes : SelectExtent(caps, size)
    \/ \E modes \in BoundedSeqs(PresentModes, MaxReported) : SelectPresentMode(modes)
    \/ \E formats \in BoundedSeqs(ReportableFormats, MaxReported) : SelectSurfaceFormat(formats)
    \/ \E devices \in BoundedSeqs(BoundedSeqs(QueueFamilies, MaxReported), MaxDevices),
          calls_ok \in BOOLEAN : GfxNew(devices, calls_ok)
    \/ \E extent \in ImageExtents, mipmaps \in BOOLEAN : CreateImageMipLevels(extent, mipmaps)
    \/ \E old_layout \in ImageLayouts, new_layout \in ImageLayouts :
          TransitionLayout(old_layout, new_layout)
    \/ \E extent \in ImageExtents : RecordImageUpload(extent)
    \/ \E cmdlist \in BoundedSeqs({<<0, 0, 5>>, <<1, 2, 3>>}, MaxSetCmds) : RecordPrimary(cmdlist)
    \/ \E owner \in {"Gfx", "Window"} : Teardown(owner)

SpecSelect == Init /\ [][NextSelect]_vars

\* ------------------------------------------------------------ the upload path
\* ImmutableBuffer::from_slice (asynchronous, buffer.rs) and
\* create_device_local_image (blocking, image.rs) against the GPU queue, the
\* executor that polls the awaiting task and the waker thread.

size_of_T == 2                         \* size_of::<T>() of the uploaded elements (u16)
Elems == {1, 258}                      \* element values: 0x0001, 0x0102
GarbageBytes == {0, 255}               \* what freshly allocated memory may hold
UploadObjects == {"fence", "cmd", "cpubuf", "cpumem"}

\* The bytes of one element in memory (little endian).
Encode(x) == <<x % 256, x \div 256>>

\* buffer.rs:35-36  the bytes clone_from_slice writes for data.
RECURSIVE ToBytes(_)
ToBytes(d) == IF d = <<>> THEN <<>> ELSE Encode(Head(d)) \o ToBytes(Tail(d))

\* The elements a buffer of these bytes holds, read as [T].
FromBytes(b) ==
    [i \in 1..(Len(b) \div size_of_T) |-> b[size_of_T * i - 1] + 256 * b[size_of_T * i]]

\* Mutant: the region is given in elements, not in bytes.
BufferCopySize_Elements(size) == size \div size_of_T

\* buffer.rs:54  vk::BufferCopy::builder().size(size)
BufferCopySize(size) == size

\* vkCmdCopyBuffer: the destination's bytes after the region was copied.
CopyBuffer(src, dst, r) ==
    [i \in 1..Len(dst) |->
        IF r.dst_offset < i /\ i <= r.dst_offset + r.size /\ i - r.dst_offset + r.src_offset <= Len(src)
        THEN src[i - r.dst_offset + r.src_offset]
        ELSE dst[i]]

\* buffer.rs:25-55, image.rs:18-66  create and fill the staging buffer, create
\* the destination and the fence, record the copy.  g is what the destination's
\* fresh memory holds.
UploadStage(path, d, g) ==
    /\ up_pc = "idle"
    /\ up_path' = path
    /\ data' = d
    /\ LET size == size_of_T * Len(d)
           bufdata == [i \in 1..(size \div size_of_T) |-> d[i]]
       IN  /\ cpubuf' = ToBytes(bufdata)
           /\ buf' = [i \in 1..size |-> g]
           /\ region' = BufferCopy(BufferCopySize(size))
    /\ up_pc' = "submit"
    /\ UNCHANGED <<fence_signaled, gpu, freed, status, wake_queue, notified, was_pending,
                   presentVars, selected, volumeVars, poolVars>>

\* buffer.rs:59, image.rs:69  queue_submit(queue, &submits, fence)
UploadSubmit ==
    /\ up_pc = "submit"
    /\ gpu' = "pending"
    /\ up_pc' = IF up_path = "from_slice" THEN "poll" ELSE "wait"
    /\ UNCHANGED <<up_path, data, cpubuf, buf, region, fence_signaled, freed, status,
                   wake_queue, notified, was_pending, presentVars, selected, volumeVars, poolVars>>

\* buffer.rs:27-59, image.rs:20-82  an unwrap on the way to the wait panics.
UploadFail ==
    /\ up_pc \in {"submit", "wait"}
    /\ up_pc' = "panicked"
    /\ UNCHANGED <<up_path, data, cpubuf, buf, region, fence_signaled, gpu, freed, status,
                   wake_queue, notified, was_pending, presentVars, selected, volumeVars, poolVars>>

\* The failure codes of vkGetFenceStatus / vkWaitForFences.
FenceErrors == {"ERROR_OUT_OF_HOST_MEMORY", "ERROR_DEVICE_LOST"}

\* What vkGetFenceStatus / vkWaitForFences can report for the fence now.
FenceStatuses ==
    {IF fence_signaled THEN "SUCCESS" ELSE "NOT_READY"} \cup FenceErrors

\* Mutant: an error status is treated like NOT_READY.
PollOutcome_ErrorPending(st) ==
    CASE st = "SUCCESS" -> "ready_ok"
      [] OTHER -> "spawn"

\* fence.rs:36-44, buffer.rs:96-104  the arm of poll's match the status selects.
PollOutcome(st) ==
    CASE st = "SUCCESS" -> "ready_ok"
      [] st = "NOT_READY" -> "spawn"
      [] OTHER -> "ready_err"

\* fence.rs:36, buffer.rs:96  Fence::poll reads the fence's status.
PollStatus(st) ==
    /\ up_pc = "poll"
    /\ st \in FenceStatuses
    /\ status' = st
    /\ up_pc' = PollOutcome(st)
    /\ UNCHANGED <<up_path, data, cpubuf, buf, region, fence_signaled, gpu, freed,
                   wake_queue, notified, was_pending, presentVars, selected, volumeVars, poolVars>>

\* Mutant: poll returns Pending without spawning the wake.
SpawnWake_Dropped(q) == q

\* fence.rs:39-40, buffer.rs:99-100  WAKER_THREAD's queue after
\* spawn(async move { waker.wake() }).
SpawnWake(q) == q + 1

\* fence.rs:39-40, buffer.rs:99-100  clone the waker, spawn the wake.
PollSpawn ==
    /\ up_pc = "spawn"
    /\ wake_queue' = SpawnWake(wake_queue)
    /\ up_pc' = "return_pending"
    /\ UNCHANGED <<up_path, data, cpubuf, buf, region, fence_signaled, gpu, freed, status,
                   notified, was_pending, presentVars, selected, volumeVars, poolVars>>

\* fence.rs:41, buffer.rs:101, 61  Poll::Pending goes up to the executor; the
\* task is suspended.
PollReturnPending ==
    /\ up_pc = "return_pending"
    /\ up_pc' = "pending"
    /\ was_pending' = TRUE
    /\ UNCHANGED <<up_path, data, cpubuf, buf, region, fence_signaled, gpu, freed, status,
                   wake_queue, notified, presentVars, selected, volumeVars, poolVars>>

\* main.rs:16  block_on polls the task again once its waker was called.
ExecutorPoll ==
    /\ up_pc = "pending"
    /\ notified
    /\ notified' = FALSE
    /\ up_pc' = "poll"
    /\ UNCHANGED <<up_path, data, cpubuf, buf, region, fence_signaled, gpu, freed, status,
                   wake_queue, was_pending, presentVars, selected, volumeVars, poolVars>>

\* The waker thread runs a spawned task: waker.wake().
WakerRun ==
    /\ wake_queue > 0
    /\ wake_queue' = wake_queue - 1
    /\ notified' = TRUE
    /\ UNCHANGED <<up_path, up_pc, data, cpubuf, buf, region, fence_signaled, gpu, freed,
                   status, was_pending, presentVars, selected, volumeVars, poolVars>>

\* buffer.rs:61, 107-111  Ready(Err(err)): the awaited Fence is dropped, which
\* destroys the fence, and unwrap panics.
FenceReadyErr ==
    /\ up_pc = "ready_err"
    /\ freed' = freed \cup {"fence"}
    /\ up_pc' = "panicked"
    /\ UNCHANGED <<up_path, data, cpubuf, buf, region, fence_signaled, gpu, status,
                   wake_queue, notified, was_pending, presentVars, selected, volumeVars, poolVars>>

\* image.rs:84  wait_for_fences(&[fence], false, !0).unwrap()
WaitForFences(st) ==
    /\ up_pc = "wait"
    /\ st \in FenceStatuses \ {"NOT_READY"}
    /\ status' = st
    /\ up_pc' = IF st = "SUCCESS" THEN "ready_ok" ELSE "panicked"
    /\ UNCHANGED <<up_path, data, cpubuf, buf, region, fence_signaled, gpu, freed,
                   wake_queue, notified, was_pending, presentVars, selected, volumeVars, poolVars>>

\* buffer.rs:61-67, image.rs:86-91  destroy the fence, free the command buffer,
\* destroy the staging buffer, free its memory, return the destination.
UploadFinish ==
    /\ up_pc = "ready_ok"
    /\ freed' = freed \cup UploadObjects
    /\ up_pc' = "returned"
    /\ UNCHANGED <<up_path, data, cpubuf, buf, region, fence_signaled, gpu, status,
                   wake_queue, notified, was_pending, presentVars, selected, volumeVars, poolVars>>

\* The GPU executes the copy; a staging buffer freed by then yields garbage.
GpuCopy ==
    /\ gpu = "pending"
    /\ \E g \in GarbageBytes :
          buf' = IF "cpubuf" \in freed
                 THEN [i \in 1..Len(buf) |-> g]
                 ELSE CopyBuffer(cpubuf, buf, region)
    /\ gpu' = "done"
    /\ UNCHANGED <<up_path, up_pc, data, cpubuf, region, fence_signaled, freed, status,
                   wake_queue, notified, was_pending, presentVars, selected, volumeVars, poolVars>>

\* The submission has completed: its fence is signaled.
GpuSignal ==
    /\ gpu = "done"
    /\ ~fence_signaled
    /\ fence_signaled' = TRUE
    /\ UNCHANGED <<up_path, up_pc, data, cpubuf, buf, region, gpu, freed, status,
                   wake_queue, notified, was_pending, presentVars, selected, volumeVars, poolVars>>

NextUpload ==
    \/ \E path \in {"from_slice", "image"}, d \in BoundedSeqs(Elems, MaxLen), g \in GarbageBytes :
          UploadStage(path, d, g)
    \/ UploadSubmit
    \/ UploadFail
    \/ \E st \in {"SUCCESS", "NOT_READY"} \cup FenceErrors : PollStatus(st)
    \/ PollSpawn
    \/ PollReturnPending
    \/ ExecutorPoll
    \/ WakerRun
    \/ FenceReadyErr
    \/ \E st \in {"SUCCESS"} \cup FenceErrors : WaitForFences(st)
    \/ UploadFinish
    \/ GpuCopy
    \/ GpuSignal

SpecUpload == Init /\ [][NextUpload]_vars

\* The GPU makes progress, the waker thread runs what is spawned on it, and the
\* thread in block_on runs the task whenever it can.
SpecUploadFair ==
    /\ SpecUpload
    /\ WF_vars(GpuCopy)
    /\ WF_vars(GpuSignal)
    /\ WF_vars(WakerRun)
    /\ WF_vars(ExecutorPoll)
    /\ WF_vars(UploadSubmit \/ PollSpawn \/ PollReturnPending \/ FenceReadyErr \/ UploadFinish)
    /\ WF_vars(\E st \in {"SUCCESS", "NOT_READY"} \cup FenceErrors : PollStatus(st))
    /\ WF_vars(\E st \in {"SUCCESS"} \cup FenceErrors : WaitForFences(st))

\* ------------------------------------------- StaticVolume's command-buffer cache
\* StaticVolume::get_cmds (volume.rs) against a window whose swapchain objects
\* are recreated between calls.

PipelineHandles == {1, 2}          \* values a vk::Pipeline handle takes; a destroyed
                                   \* pipeline's value may be given out again
FramebufferCounts == {2, 3}        \* window_inner.framebuffers.len()

\* The framebuffers of the window's g-th set of swapchain objects.
Framebuffers(g, n) == [i \in 1..n |-> <<g, i>>]

\* Mutant: every call records.
NeedsRecord_Always(cached, current) == TRUE

\* volume.rs:38  if *pipeline != window_inner.pipeline
NeedsRecord(cached, current) == cached # current

\* volume.rs:44-64  the secondaries of allocation b, one per framebuffer, each
\* recorded against its framebuffer and the window's pipeline.
RecordVolume(wi, b) ==
    [i \in 1..Len(wi.framebuffers) |->
        [batch |-> b, framebuffer |-> wi.framebuffers[i], pipeline |-> wi.pipeline]]

\* volume.rs:34-72  StaticVolume::get_cmds; indexing past the cache panics.
get_cmds(idx) ==
    /\ ~got.panicked
    /\ idx < Len(window_inner.framebuffers)
    /\ LET record == NeedsRecord(cmds.pipeline, window_inner.pipeline)
           after == IF record
                    THEN [pipeline |-> window_inner.pipeline,
                          cmds |-> RecordVolume(window_inner, batches + 1)]
                    ELSE cmds
       IN  /\ cmds' = after
           /\ batches' = IF record THEN batches + 1 ELSE batches
           /\ got' = [call |-> 1 - got.call,
                      image_idx |-> idx,
                      recorded |-> record,
                      result |-> IF idx < Len(after.cmds) THEN <<after.cmds[idx + 1]>> ELSE <<>>,
                      panicked |-> idx >= Len(after.cmds)]
    /\ UNCHANGED <<window_inner, presentVars, selected, uploadVars, poolVars>>

\* The window recreates its swapchain objects: new framebuffers, and a new
\* pipeline whose handle value is any the driver gives out.
WindowInnerRecreate(p, n) ==
    /\ ~got.panicked
    /\ window_inner.gen < MaxGen
    /\ window_inner' = [gen |-> window_inner.gen + 1,
                        pipeline |-> p,
                        framebuffers |-> Framebuffers(window_inner.gen + 1, n)]
    /\ UNCHANGED <<cmds, batches, got, presentVars, selected, uploadVars, poolVars>>

NextVolume ==
    \/ \E idx \in 0..2 : get_cmds(idx)
    \/ \E p \in PipelineHandles, n \in FramebufferCounts : WindowInnerRecreate(p, n)

SpecVolume == Init /\ [][NextVolume]_vars

\* ------------------------------------------------ the vulkan crate's CommandPool
\* One thread's pool of a CommandPool (vulkan/src/command.rs): the thread
\* records, builds and resets; command buffers are dropped by any thread.

Levels == {"primary", "secondary"}

\* The command buffers ever allocated at a level of a pool of the given sizes.
Allocated(size, level) == {<<level, n>> : n \in 1..size[level]}

\* command.rs:111-122  the buffers get_cmdbuf allocates when none is available.
GrowBy(size) == IF size = 0 THEN 1 ELSE size

\* command.rs:62-63  a failed assertion has ended the pool's thread, now or earlier.
Panicked == last_reset \in {"panic", "panicked"}

\* command.rs:30-49, 106-134  record / record_secondary: take a buffer of the
\* level (get_cmdbuf), allocating when none is available, and begin it.
record(level) ==
    /\ ~Panicked
    /\ LET n == pool.size[level]
           grow == pool.cmds[level] = <<>>
           avail == IF grow THEN [i \in 1..GrowBy(n) |-> <<level, n + i>>] ELSE pool.cmds[level]
       IN  /\ grow => n + GrowBy(n) <= MaxPoolSize
           /\ pool' = [cmds |-> [pool.cmds EXCEPT ![level] = SubSeq(avail, 1, Len(avail) - 1)],
                       size |-> [pool.size EXCEPT ![level] = IF grow THEN n + GrowBy(n) ELSE n]]
           /\ builders' = builders \cup {avail[Len(avail)]}
    /\ last_reset' = "none"
    /\ UNCHANGED <<free, built, submission, presentVars, selected, uploadVars, volumeVars>>

\* command.rs:231-236  CommandBufferBuilder::build
build(cmd) ==
    /\ ~Panicked
    /\ cmd \in builders
    /\ builders' = builders \ {cmd}
    /\ built' = built \cup {cmd}
    /\ last_reset' = "none"
    /\ UNCHANGED <<pool, free, submission, presentVars, selected, uploadVars, volumeVars>>

\* command.rs:179-188  a CommandBufferBuilder is dropped without build: it has
\* no Drop, its buffer goes nowhere.
DropBuilder(cmd) ==
    /\ ~Panicked
    /\ cmd \in builders
    /\ builders' = builders \ {cmd}
    /\ last_reset' = "none"
    /\ UNCHANGED <<pool, free, built, submission, presentVars, selected, uploadVars, volumeVars>>

\* command.rs:320-326  Drop for CommandBuffer: push the buffer on the free list
\* of its level.
DropCommandBuffer(cmd) ==
    /\ cmd \in built
    /\ submission.resources # <<cmd>>
    /\ built' = built \ {cmd}
    /\ free' = [free EXCEPT ![cmd[1]] = Append(@, cmd)]
    /\ last_reset' = IF Panicked THEN "panicked" ELSE "none"
    /\ UNCHANGED <<pool, builders, submission, presentVars, selected, uploadVars, volumeVars>>

\* Mutant: reset asserts nothing.
ResetCheck_None(level) == TRUE

\* command.rs:62-63  the assertion reset makes for a level.
ResetCheck(level) == Len(pool.cmds[level]) + Len(free[level]) = pool.size[level]

\* command.rs:54-73  CommandPool::reset
reset ==
    /\ ~Panicked
    /\ IF ResetCheck("primary") /\ ResetCheck("secondary")
       THEN /\ pool' = [pool EXCEPT !.cmds = [l \in Levels |-> pool.cmds[l] \o free[l]]]
            /\ free' = [l \in Levels |-> <<>>]
            /\ last_reset' = "ok"
       ELSE /\ last_reset' = "panic"
            /\ UNCHANGED <<pool, free>>
    /\ UNCHANGED <<builders, built, submission, presentVars, selected, uploadVars, volumeVars>>

\* sync.rs:17, 24-29  the Fence lets go of its resources (clear() in wait, or
\* the drop of the field): the Arc of the command buffer is dropped, and when
\* no other holder is left Drop for CommandBuffer pushes the buffer on the
\* free list of its level.
Release ==
    LET cmd == submission.resources[1]
        last == submission.resources # <<>> /\ ~submission.holder
    IN  /\ built' = IF last THEN built \ {cmd} ELSE built
        /\ free' = IF last THEN [free EXCEPT ![cmd[1]] = Append(@, cmd)] ELSE free
        /\ last_reset' = IF last THEN (IF Panicked THEN "panicked" ELSE "none") ELSE last_reset

\* device.rs:220-241  Queue::submit(cmd).end(): create the fence with a clone
\* of the command buffer's Arc, queue_submit; the caller may keep an Arc of
\* its own.  When queue_submit fails, unwrap panics and the fence, which was
\* never submitted, is dropped while the panic unwinds.
SubmitEnd(cmd, keeps, ok) ==
    /\ ~Panicked
    /\ cmd \in built
    /\ cmd[1] = "primary"
    /\ submission.fence \in {"none", "destroyed"}
    /\ submission.resources = <<>>
    /\ submission' = [cmd |-> <<cmd>>, resources |-> <<cmd>>, holder |-> keeps,
                      gpu |-> IF ok THEN "pending" ELSE "unsubmitted",
                      fence |-> IF ok THEN "live" ELSE "unwinding"]
    /\ UNCHANGED <<pool, free, builders, built, last_reset, presentVars, selected, uploadVars,
                   volumeVars>>

\* Another holder of the command buffer's Arc drops it while the Fence still
\* holds its clone.
HolderDrop ==
    /\ submission.holder
    /\ submission.resources # <<>>
    /\ submission' = [submission EXCEPT !.holder = FALSE]
    /\ UNCHANGED <<pool, free, builders, built, last_reset, presentVars, selected, uploadVars,
                   volumeVars>>

\* The GPU has executed the submission: its fence is signaled.
GpuSignalFence ==
    /\ submission.gpu = "pending"
    /\ submission' = [submission EXCEPT !.gpu = "signaled"]
    /\ UNCHANGED <<pool, free, builders, built, last_reset, presentVars, selected, uploadVars,
                   volumeVars>>

\* sync.rs:15-18  Fence::wait called by the owner: wait_for_fences returns
\* SUCCESS once the fence is signaled, and the resources are cleared; on an
\* error unwrap panics and the Fence is dropped while the panic unwinds.
FenceWait(res) ==
    /\ submission.fence = "live"
    /\ res = "SUCCESS" => submission.gpu = "signaled"
    /\ IF res = "SUCCESS"
       THEN /\ Release
            /\ submission' = [submission EXCEPT !.resources = <<>>, !.holder = FALSE]
       ELSE /\ submission' = [submission EXCEPT !.fence = "unwinding"]
            /\ UNCHANGED <<free, built, last_reset>>
    /\ UNCHANGED <<pool, builders, presentVars, selected, uploadVars, volumeVars>>

\* sync.rs:24-29  Drop for Fence: wait, then destroy_fence.  When the wait
\* fails, unwrap panics inside drop: while another panic unwinds the process
\* aborts; otherwise destroy_fence is skipped and the fields of the Fence,
\* resources among them, are dropped as the panic unwinds.
FenceDrop(res) ==
    /\ submission.fence \in {"live", "unwinding"}
    /\ res = "SUCCESS" => submission.gpu = "signaled"
    /\ IF res # "SUCCESS" /\ submission.fence = "unwinding"
       THEN /\ submission' = [submission EXCEPT !.fence = "aborted"]
            /\ UNCHANGED <<free, built, last_reset>>
       ELSE /\ Release
            /\ submission' = [submission EXCEPT
                  !.resources = <<>>,
                  !.holder = FALSE,
                  !.fence = IF res = "SUCCESS" THEN "destroyed" ELSE "panicked"]
    /\ UNCHANGED <<pool, builders, presentVars, selected, uploadVars, volumeVars>>

NextPool ==
    \/ \E level \in Levels : record(level)
    \/ \E cmd \in builders : build(cmd)
    \/ \E cmd \in builders : DropBuilder(cmd)
    \/ \E cmd \in built : DropCommandBuffer(cmd)
    \/ reset
    \/ \E cmd \in built, keeps \in BOOLEAN, ok \in BOOLEAN : SubmitEnd(cmd, keeps, ok)
    \/ HolderDrop
    \/ GpuSignalFence
    \/ \E res \in {"SUCCESS"} \cup FenceErrors : FenceWait(res)
    \/ \E res \in {"SUCCESS"} \cup FenceErrors : FenceDrop(res)

SpecPool == Init /\ [][NextPool]_vars

\* ------------------------------------------------------------ properties

InDraw == {"acquire", "wait", "record", "submit", "present"}

\* The objects the command buffers of slot s were last recorded against.
Referenced(s) ==
    LET cb == frame_data[s].recorded IN
    {<<"framebuffers", cb.framebuffer>>, <<"image_views", cb.framebuffer>>,
     <<"pipeline", cb.pipeline>>, <<"stencil_desc_pool", cb.stencil>>}

\* C1: draw resets a slot's command pool and re-records its command buffers
\* only while that slot has no submitted-but-unretired command buffer.
C1_RecordOnlyRetiredSlot ==
    pc \in {"record", "submit"} => ~InFlight(cur)

\* C1 witness: a slot that was submitted before is being re-recorded while the
\* other slot is still in flight.
C1_Witness ==
    /\ pc = "record"
    /\ frame_data[cur].recorded.pipeline # NoHandle
    /\ InFlight(Not(cur))

\* C2: a slot's image_available semaphore is handed to acquire_next_image only
\* when that slot's frame_finished fence is signaled.
C2_AcquireOnlyWithSignaledFence ==
    [][(pc = "acquire" /\ pc' # "acquire") => frame_data[frame].frame_finished]_vars

\* C3: whenever recreate_swapchain has destroyed the old framebuffers, pipeline,
\* image views (and stencil descriptor pool), no slot has a submitted-but-unretired
\* command buffer that references them.
C3_RecreateDestroysNothingInFlight ==
    pc # "dropped" =>
        \A s \in Slots : InFlight(s) => Referenced(s) \cap destroyed = {}

\* C3 witness: a recreation has destroyed the objects both slots were last
\* recorded (and submitted) against, stencil descriptor pool included.
C3_Witness ==
    /\ pc = "acquire"
    /\ swapchain # entry_swapchain
    /\ \A s \in Slots : <<"framebuffers", frame_data[s].recorded.framebuffer>> \in destroyed
    /\ \E s \in Slots : <<"stencil_desc_pool", frame_data[s].recorded.stencil>> \in destroyed

\* C4: when the Window is dropped, no slot has a submitted-but-unretired command
\* buffer: both slots are retired before FrameData::dispose and the destroy calls.
C4_DropDestroysNothingInFlight ==
    pc = "dropped" => \A s \in Slots : ~InFlight(s)

\* C4 witness: the window was dropped after both slots had been submitted.
C4_Witness ==
    /\ pc = "dropped"
    /\ \A s \in Slots : frame_data[s].recorded.pipeline # NoHandle

\* C5: at most 2 submissions are submitted-but-unretired, and no slot has more
\* than one.
C5_AtMostOneInFlightPerSlot ==
    /\ Len(queue) <= 2
    /\ \A s \in Slots : Cardinality({i \in 1..Len(queue) : queue[i].slot = s}) <= 1

\* C5 witness: both slots are in flight at once.
C5_Witness == Len(queue) = 2 /\ InFlight(0) /\ InFlight(1)

\* C6: when acquire_next_image returns ERROR_OUT_OF_DATE_KHR, draw sets the
\* recreate flag and returns normally; it does not wait on or reset a fence, toggle
\* the parity, drain set_cmds, record, submit or present.
C6_OutOfDateAbandonsFrame ==
    [][(pc = "acquire" /\ acq' = "out_of_date") =>
          /\ pc' = "idle"
          /\ recreate_swapchain'
          /\ pres' = "none"
          /\ UNCHANGED <<frame, frame_data, set_cmds, queue>>]_vars

\* C6 witness: a draw call has returned from an out-of-date acquire with set
\* commands still queued.
C6_Witness ==
    pc = "idle" /\ acq = "out_of_date" /\ Len(set_cmds) > 0

\* C7 as claimed: after a suboptimal acquire nothing is submitted or presented
\* in that call.
C7_SuboptimalSkipsFrame ==
    acq = "suboptimal" => (pc # "present" /\ pres = "none")

\* C7 amended: after a suboptimal acquire the recreate flag is set and the frame
\* is not skipped: the call goes on to the fence wait and returns only after it
\* has submitted and presented.
C7_SuboptimalDrawsAndSchedules ==
    acq = "suboptimal" =>
        /\ recreate_swapchain
        /\ pc # "acquire"
        /\ pc = "idle" => pres \in {"ok", "suboptimal", "out_of_date"}

\* C7 witness: a call whose acquire was suboptimal has presented and returned
\* while the call had started without a pending recreation.
C7_Witness ==
    pc = "idle" /\ acq = "suboptimal" /\ pres = "ok" /\ swapchain = 0

\* C8: a present result of suboptimal or out-of-date sets the recreate flag and
\* draw returns; Ok(false) returns with the flag unchanged; at acquire and at
\* present draw panics exactly when the result is another error.
C8_ResultHandling ==
    [][/\ (pc = "present" /\ pres' \in {"suboptimal", "out_of_date"}) =>
              (pc' = "idle" /\ recreate_swapchain')
       /\ (pc = "present" /\ pres' = "ok") =>
              (pc' = "idle" /\ recreate_swapchain' = recreate_swapchain)
       /\ (pc \in {"acquire", "present"} /\ pc' # pc) =>
              (pc' = "panicked" <=> (acq' = "error" \/ pres' = "error"))]_vars

\* C8 witness: draw has returned normally from an out-of-date present.
C8_Witness ==
    pc = "idle" /\ pres = "out_of_date" /\ acq = "ok" /\ recreate_swapchain

\* C9: a recreation pending at entry to draw is performed before acquire, and
\* acquire, framebuffer lookup and present use the live swapchain of this
\* generation, never a destroyed one.
C9_RecreateBeforeAcquire ==
    /\ (pc = "acquire" /\ recreate_swapchain) =>
          (swapchain # entry_swapchain /\ <<"swapchain", entry_swapchain>> \in destroyed)
    /\ pc \in InDraw =>
          /\ <<"swapchain", swapchain>> \notin destroyed
          /\ <<"framebuffers", framebuffers.gen>> \notin destroyed
          /\ framebuffers.gen = swapchain

\* C9 witness: a call that recreated the swapchain has reached present.
C9_Witness ==
    pc = "present" /\ swapchain # entry_swapchain

\* C10: a window-resize notification schedules a swapchain recreation.
C10_ResizeSchedulesRecreate ==
    [][window_size' # window_size => recreate_swapchain']_vars

Range(s) == {s[i] : i \in 1..Len(s)}

\* C11: get_caps returns caps.current_extent when its width is not u32::MAX;
\* otherwise each component is the window's size clamped into the surface's
\* range: for min <= max it lies in the range, equals the window's component
\* when that is in range already, and is the nearer limit when it is not.
C11_ExtentSelection ==
    selected.fn = "get_caps" =>
        LET caps == selected.input.caps
            size == selected.input.size
            out == selected.output
            Clamped(v, lo, hi, r) ==
                lo <= hi => /\ lo <= r /\ r <= hi
                            /\ (lo <= v /\ v <= hi) => r = v
                            /\ v < lo => r = lo
                            /\ v > hi => r = hi
        IN  IF caps.current_extent.width # U32_MAX
            THEN out = caps.current_extent
            ELSE /\ Clamped(size.width, caps.min_image_extent.width,
                            caps.max_image_extent.width, out.width)
                 /\ Clamped(size.height, caps.min_image_extent.height,
                            caps.max_image_extent.height, out.height)

\* C11 witness: the surface leaves the extent open and the window, resized to
\* 800x600, is narrower than the surface's minimum: the width is raised, the
\* height is the window's.
C11_Witness ==
    /\ selected.fn = "get_caps"
    /\ selected.input.caps.current_extent.width = U32_MAX
    /\ selected.input.size = Extent(800, 600)
    /\ selected.output = Extent(1000, 600)

\* C12: for a non-empty list of reported present modes the selected mode is a
\* reported one and none of the reported modes is preferred to it under
\* mailbox > immediate > fifo-relaxed > fifo > any other, in whatever order
\* they are reported; {fifo, mailbox} selects mailbox and {fifo} selects fifo.
C12_PresentModePreference ==
    (selected.fn = "present_mode" /\ selected.input # <<>>) =>
        LET modes == Range(selected.input)
            Preferred(a, b) ==
                \/ a = "MAILBOX" /\ b # "MAILBOX"
                \/ a = "IMMEDIATE" /\ b \notin {"MAILBOX", "IMMEDIATE"}
                \/ a = "FIFO_RELAXED" /\ b \notin {"MAILBOX", "IMMEDIATE", "FIFO_RELAXED"}
                \/ a = "FIFO" /\ b \in {"SHARED_DEMAND_REFRESH", "SHARED_CONTINUOUS_REFRESH"}
        IN  /\ Len(selected.output) = 1
            /\ selected.output[1] \in modes
            /\ \A m \in modes : ~Preferred(m, selected.output[1])
            /\ modes = {"FIFO", "MAILBOX"} => selected.output[1] = "MAILBOX"
            /\ modes = {"FIFO"} => selected.output[1] = "FIFO"

\* C12 witness: mailbox is reported after fifo and is selected.
C12_Witness ==
    /\ selected.fn = "present_mode"
    /\ selected.input = <<"FIFO", "MAILBOX">>
    /\ selected.output = <<"MAILBOX">>

\* C13 as claimed: B8G8R8A8_UNORM with SRGB_NONLINEAR is selected when it is
\* reported, otherwise the first reported format.
C13_PreferredElseFirst ==
    (selected.fn = "surface_format" /\ selected.input # <<>>) =>
        selected.output = IF PreferredFormat \in Range(selected.input)
                          THEN <<PreferredFormat>>
                          ELSE <<selected.input[1]>>

\* C13 amended: B8G8R8A8_UNORM with SRGB_NONLINEAR is selected when it is
\* reported, otherwise the last reported format.
C13_PreferredElseLast ==
    (selected.fn = "surface_format" /\ selected.input # <<>>) =>
        selected.output = IF PreferredFormat \in Range(selected.input)
                          THEN <<PreferredFormat>>
                          ELSE <<selected.input[Len(selected.input)]>>

\* C13 witness: the preferred format is not among several different reported
\* formats and the last of them is selected.
C13_Witness ==
    /\ selected.fn = "surface_format"
    /\ PreferredFormat \notin Range(selected.input)
    /\ Len(selected.input) >= 2
    /\ selected.input[1] # selected.input[Len(selected.input)]
    /\ selected.output = <<selected.input[Len(selected.input)]>>

\* C14: a recreate_swapchain that finds the surface capabilities and the window
\* size as they were when the current swapchain was created requests the new
\* swapchain with the same image count (caps.min_image_count + 1), the same
\* surface format (the one Window::new chose) and the same extent.
C14_RecreateIdempotent ==
    [][(gen' # gen /\ created_for = [caps |-> surface_caps, size |-> window_size]) =>
          /\ swapchain_ci'.min_image_count = swapchain_ci.min_image_count
          /\ swapchain_ci'.min_image_count = surface_caps.min_image_count + 1
          /\ swapchain_ci'.image_format = swapchain_ci.image_format
          /\ swapchain_ci'.image_color_space = swapchain_ci.image_color_space
          /\ swapchain_ci'.image_format = PreferredFormat.format
          /\ swapchain_ci'.image_extent = swapchain_ci.image_extent]_vars

\* C14 witness: the swapchain was recreated for the resized window, got more
\* images than were asked for, and is being recreated again with capabilities
\* and window size unchanged.
C14_Witness ==
    /\ pc = "recreate"
    /\ gen = 1
    /\ window_size = Extent(800, 600)
    /\ created_for = [caps |-> surface_caps, size |-> window_size]
    /\ image_views.len # swapchain_ci.min_image_count

\* C15: in the upload path the staging buffer, its memory, the one-shot command
\* buffer and the upload fence are destroyed or freed only after the fence of
\* the copy submission has signaled, and the destination is returned only then.
C15_FreedOnlyAfterSignal ==
    (freed # {} \/ up_pc = "returned") => fence_signaled

\* C16: once from_slice has completed, the device-local buffer holds exactly the
\* elements of data in order; the staging buffer has size_of::<T>() * len bytes
\* holding data, and the recorded copy transfers that many bytes from offset 0
\* to offset 0.
C16_UploadRoundTrip ==
    (up_path = "from_slice" /\ up_pc = "returned") =>
        /\ FromBytes(buf) = data
        /\ Len(buf) = size_of_T * Len(data)
        /\ Len(cpubuf) = size_of_T * Len(data)
        /\ FromBytes(cpubuf) = data
        /\ region = [src_offset |-> 0, dst_offset |-> 0, size |-> size_of_T * Len(data)]

\* C16 witness: from_slice has returned for a slice of two different elements.
C16_Witness ==
    /\ up_path = "from_slice"
    /\ up_pc = "returned"
    /\ Len(data) = 2
    /\ data[1] # data[2]

\* C17: Fence::poll returns Ready(Ok(())) only if the fence is signaled when it
\* is polled; on NOT_READY it spawns one wake on the waker thread and returns
\* Pending; on any other status it returns Ready(Err(status)) and spawns nothing.
C17_PollContract ==
    [][/\ (up_pc = "poll" /\ up_pc' # "poll") =>
              /\ up_pc' = "ready_ok" => (fence_signaled /\ status' = "SUCCESS")
              /\ status' = "NOT_READY" => up_pc' = "spawn"
              /\ status' \notin {"SUCCESS", "NOT_READY"} => up_pc' = "ready_err"
              /\ wake_queue' = wake_queue
       /\ (up_pc = "spawn" /\ up_pc' # "spawn") =>
              (wake_queue' = wake_queue + 1 /\ up_pc' = "return_pending")
       /\ (up_pc = "return_pending" /\ up_pc' # "return_pending") => up_pc' = "pending"
       /\ up_pc = "ready_err" => wake_queue' <= wake_queue]_vars

\* C17 witness: a poll that found the fence not ready has returned Pending and
\* its wake is waiting on the waker thread.
C17_Witness ==
    /\ up_pc = "pending"
    /\ status = "NOT_READY"
    /\ wake_queue = 1
    /\ ~notified

\* C18: with the GPU, the waker thread and the executor scheduled fairly, the
\* task awaiting the Fence is polled again after every Pending, and once polled
\* it eventually completes with Ready(Ok(())) unless the driver reports an error.
C18_NoLostWakeup ==
    /\ (up_pc = "pending") ~> (up_pc = "poll")
    /\ (up_path = "from_slice" /\ up_pc = "poll") ~>
           (up_pc = "returned" \/ status \in FenceErrors)

\* C18 witness: from_slice has returned after its Fence had returned Pending.
C18_Witness ==
    /\ up_path = "from_slice"
    /\ up_pc = "returned"
    /\ was_pending
    /\ status = "SUCCESS"

\* C19: get_cmds re-allocates and re-records its secondaries if and only if the
\* window's pipeline handle differs from the cached one; otherwise it returns
\* the cached buffer for image_idx and leaves the cache alone; after a re-record
\* the cache holds one buffer per current framebuffer, recorded against it and
\* the new pipeline, under the new pipeline handle.
C19_CacheKeyedByPipeline ==
    [][got'.call # got.call =>
          LET differs == cmds.pipeline # window_inner.pipeline
              idx == got'.image_idx
          IN  /\ got'.recorded <=> differs
              /\ batches' # batches <=> differs
              /\ ~differs =>
                    /\ cmds' = cmds
                    /\ idx < Len(cmds.cmds) => got'.result = <<cmds.cmds[idx + 1]>>
              /\ differs =>
                    /\ cmds'.pipeline = window_inner.pipeline
                    /\ Len(cmds'.cmds) = Len(window_inner.framebuffers)
                    /\ \A i \in 1..Len(cmds'.cmds) :
                          /\ cmds'.cmds[i].framebuffer = window_inner.framebuffers[i]
                          /\ cmds'.cmds[i].pipeline = window_inner.pipeline
                          /\ cmds'.cmds[i].batch = batches'
                    /\ got'.result = <<cmds'.cmds[idx + 1]>>]_vars

\* C19 witness: after a recreation get_cmds has recorded a second time, and the
\* call after it returned the cached buffer of the last image without recording.
C19_Witness ==
    /\ batches = 2
    /\ ~got.recorded
    /\ got.image_idx = Len(window_inner.framebuffers) - 1
    /\ got.result = <<cmds.cmds[got.image_idx + 1]>>
    /\ got.result[1].framebuffer = <<window_inner.gen, got.image_idx + 1>>

\* C20: reset panics if a command buffer taken from the thread's pool has been
\* built and not dropped, judging primary and secondary buffers separately; when
\* it does not panic, every buffer ever allocated from the pool is available
\* afterwards and the pool's free list is empty.
C20_ResetAccounting ==
    /\ last_reset = "ok" =>
          /\ built = {}
          /\ \A l \in Levels :
                /\ Range(pool.cmds[l]) = Allocated(pool.size, l)
                /\ Len(pool.cmds[l]) = pool.size[l]
                /\ free[l] = <<>>
    /\ last_reset = "panic" =>
          \E l \in Levels :
              Cardinality(Range(pool.cmds[l]) \cup Range(free[l])) < pool.size[l]

\* C20 witness: reset has succeeded after two primaries and a secondary had
\* been built and dropped.
C20_Witness ==
    /\ last_reset = "ok"
    /\ pool.size["primary"] = 2
    /\ pool.size["secondary"] = 1

\* Device d (counted from 0) of the enumerated devices has a family with GRAPHICS.
HasGraphics(devices, d) ==
    \E i \in 1..Len(devices[d + 1]) : "GRAPHICS" \in devices[d + 1][i]

\* C21 as stated: with every create call succeeding, Gfx::new succeeds whenever
\* some enumerated device has a graphics-capable family and panics only if none
\* has; on success the family is the lowest-indexed GRAPHICS family, used for
\* the queue and both command pools.
C21_SucceedsIfAnyDeviceSuitable ==
    (selected.fn = "Gfx::new" /\ selected.input.calls_ok) =>
        /\ selected.output # <<>> <=>
              \E d \in 0..(Len(selected.input.devices) - 1) : HasGraphics(selected.input.devices, d)
        /\ selected.output # <<>> =>
              LET dc == selected.output[1]
              IN  /\ "GRAPHICS" \in selected.input.devices[dc.physical_device + 1][dc.queue_family + 1]
                  /\ \A i \in 0..(dc.queue_family - 1) :
                        "GRAPHICS" \notin selected.input.devices[dc.physical_device + 1][i + 1]
                  /\ dc.queue = dc.queue_family
                  /\ dc.cmdpool = dc.queue_family
                  /\ dc.cmdpool_transient = dc.queue_family

\* C21 amended: Gfx::new succeeds exactly when the first enumerated device has
\* a graphics-capable family and every create call succeeds, and panics
\* otherwise; on success the family is the lowest-indexed GRAPHICS family of
\* that first device, used for the queue and both command pools.
C21_SucceedsIffFirstDeviceSuitable ==
    selected.fn = "Gfx::new" =>
        /\ selected.output # <<>> <=>
              /\ selected.input.devices # <<>>
              /\ HasGraphics(selected.input.devices, 0)
              /\ selected.input.calls_ok
        /\ selected.output # <<>> =>
              LET dc == selected.output[1]
                  families == selected.input.devices[1]
              IN  /\ dc.physical_device = 0
                  /\ "GRAPHICS" \in families[dc.queue_family + 1]
                  /\ \A i \in 0..(dc.queue_family - 1) : "GRAPHICS" \notin families[i + 1]
                  /\ dc.queue = dc.queue_family
                  /\ dc.cmdpool = dc.queue_family
                  /\ dc.cmdpool_transient = dc.queue_family

\* C21 witness: Gfx::new succeeded on a device whose first family has no
\* GRAPHICS flag and whose second and third have it.
C21_Witness ==
    /\ selected.fn = "Gfx::new"
    /\ selected.output # <<>>
    /\ selected.output[1].queue_family = 1
    /\ Len(selected.input.devices[1]) = 3
    /\ "GRAPHICS" \in selected.input.devices[1][3]

\* The event loop has stopped calling the closure: it exited, or the closure
\* panicked or was dropped.
LoopEnded == pc \in {"exited", "panicked", "dropped"}

\* Under SpecLoopFair: once the control flow is Exit the loop ends (when the
\* recreation the next draw starts with is within the modelled generations).
LoopEndsAfterClose ==
    (control = "Exit" /\ (pc = "idle" /\ NeedsRecreate => gen < MaxGen)) ~> LoopEnded

FloorLog2(m) == CHOOSE k \in 0..30 : m \div (2 ^ k) = 1

C24_RecreateDestroysAfterWait ==
    [][(pc = "recreate" /\ destroyed' # destroyed) =>
          /\ frame_data[Not(frame)].frame_finished
          /\ ~InFlight(Not(frame))]_vars

\* C24 witness: a recreation has destroyed the first swapchain's objects after
\* slot 0, the slot that is not the next frame's, had been submitted.
C24_Witness ==
    /\ pc = "acquire"
    /\ gen = 1
    /\ SwapchainObjects(0) \subseteq destroyed
    /\ frame = 1
    /\ frame_data[0].recorded.pipeline = 0

\* window.rs:134-295  the Vulkan calls of one draw call that is not abandoned.
DrawOrder == <<"acquire", "wait", "reset", "record", "submit", "present">>

IsPrefix(a, b) == Len(a) <= Len(b) /\ a = SubSeq(b, 1, Len(a))

\* C25: within one draw call the steps occur in the order acquire, wait fence,
\* reset fence, record, queue_submit, queue_present, and a call that is not
\* abandoned returns after all of them; the fence waited on, reset and given to
\* the submission, the semaphore acquire signals and the submission waits on,
\* and the semaphore the submission signals and present waits on all belong to
\* the call's slot.
C25_DrawOrder ==
    /\ IsPrefix(sync.steps, DrawOrder)
    /\ (pc \in {"idle", "exited"} /\ acq \in {"ok", "suboptimal"}) => sync.steps = DrawOrder
    /\ "wait" \in Range(sync.steps) =>
          /\ sync.acquire_signal = cur
          /\ sync.fence_waited = cur
          /\ sync.fence_reset = cur
    /\ "submit" \in Range(sync.steps) =>
          /\ sync.submit_wait = sync.acquire_signal
          /\ sync.submit_fence = sync.fence_reset
          /\ sync.submit_signal = cur
          /\ submitted_slot = cur
    /\ "present" \in Range(sync.steps) => sync.present_wait = sync.submit_signal

\* C25 witness: a draw call on slot 1 has made all its calls and returned.
C25_Witness ==
    pc = "idle" /\ sync.steps = DrawOrder /\ cur = 1 /\ sync.present_wait = 1

\* C26: the parity starts at slot 0; it changes only in the step that has waited
\* on and reset the call's fence, before recording, and changes there every
\* time; an abandoned call leaves it as it was; consecutive submissions use
\* alternating slots, and the slot being recorded is the one whose fence the
\* call has just waited on.
C26_SlotParity ==
    /\ frame = 0
    /\ [][/\ frame' # frame =>
                /\ pc = "wait" /\ pc' = "record"
                /\ sync'.steps = <<"acquire", "wait", "reset">>
          /\ (pc = "wait" /\ pc' = "record") => frame' = Not(frame)
          /\ Len(queue') > Len(queue) =>
                /\ submitted_slot' = cur
                /\ submitted_slot' = IF submitted_slot = NoHandle THEN 0 ELSE Not(submitted_slot)]_vars
    /\ []((pc \in {"idle", "exited"} /\ acq = "out_of_date") => frame = cur)
    /\ []((pc \in {"idle", "exited"} /\ acq \in {"ok", "suboptimal"}) => frame = Not(cur))
    /\ [](pc \in {"record", "submit"} =>
             /\ frame = Not(cur)
             /\ sync.fence_waited = cur
             /\ ~frame_data[cur].frame_finished
             /\ ~InFlight(cur))

\* C26 witness: after submissions on slots 0 and 1 and a swapchain recreation,
\* slot 0 is being recorded again.
C26_Witness ==
    /\ pc = "record"
    /\ cur = 0
    /\ submitted_slot = 1
    /\ recreate_swapchain
    /\ swapchain = 1

\* C27: the per-frame fence waits never fall behind the queue submissions and
\* are ahead of them by one only between a call's wait and its submission: a
\* call that has waited on and reset its slot's fence submits with that fence,
\* a submission follows exactly one wait of its call, and between calls the two
\* counts are equal. Only a call that panics while recording or submitting
\* leaves a wait without its submission.
C27_WaitsMatchSubmits ==
    /\ waits_ahead \in {0, 1}
    /\ pc \in {"idle", "exited", "recreate", "acquire", "wait", "present"} => waits_ahead = 0
    /\ pc \in {"record", "submit"} => waits_ahead = 1
    /\ waits_ahead = 1 =>
          /\ sync.steps \in {<<"acquire", "wait", "reset">>, <<"acquire", "wait", "reset", "record">>}
          /\ pc \in {"panicked", "dropped"} => panic_site \in {"record", "submit"}
    /\ "submit" \in Range(sync.steps) =>
          /\ Cardinality({i \in 1..Len(sync.steps) : sync.steps[i] = "wait"}) = 1
          /\ sync.submit_fence = sync.fence_waited
          /\ sync.submit_fence = sync.fence_reset

\* C27 witness: between calls, after submissions on both slots and a call that
\* was abandoned without a wait, the counts are equal.
C27_Witness ==
    /\ pc = "idle"
    /\ acq = "out_of_date"
    /\ submitted_slot = 1
    /\ waits_ahead = 0

\* C28: a slot's number of secondary command buffers never decreases, over draw
\* calls, recreations and Drop; it grows only in the allocation step of a draw
\* call on that slot and only when the slot has fewer buffers than volumes;
\* after that step the slot has at least as many buffers as volumes.
C28_SecondariesOnlyGrow ==
    [][/\ \A s \in Slots :
             /\ frame_data'[s].secondaries >= frame_data[s].secondaries
             /\ frame_data'[s].secondaries > frame_data[s].secondaries =>
                   /\ pc = "record"
                   /\ s = cur
                   /\ frame_data[s].secondaries < volumes_len
       /\ (pc = "record" /\ pc' = "submit") => frame_data'[cur].secondaries >= volumes_len]_vars

\* C28 witness: after a recreation slot 0 has been recorded a second time, with
\* the buffers both slots got in their first calls.
C28_Witness ==
    /\ pc = "submit"
    /\ cur = 0
    /\ submitted_slot = 1
    /\ gen = 1
    /\ \A s \in Slots : frame_data[s].secondaries = volumes_len

\* C29: whenever the Window is in the caller's hands or draw is running, after
\* Window::new and after every recreate_swapchain, the swapchain, image views,
\* framebuffers and pipeline are of one generation, there are as many
\* framebuffers and stencil descriptor sets as image views, image_extent is the
\* extent the framebuffers and the pipeline were created with, and an acquired
\* image index is in bounds of framebuffers and stencil_desc_sets.
C29_RebuiltAsOneUnit ==
    pc \notin {"panicked", "dropped"} =>
        /\ image_views.gen = swapchain
        /\ framebuffers.gen = swapchain
        /\ pipeline = swapchain
        /\ framebuffers.len = image_views.len
        /\ stencil_desc_sets = image_views.len
        /\ built_extent.framebuffers = image_extent
        /\ built_extent.pipeline = image_extent
        /\ swapchain_ci.image_extent = image_extent
        /\ pc \in {"wait", "record", "submit", "present"} =>
              /\ 0 <= image_idx
              /\ image_idx < framebuffers.len
              /\ image_idx < stencil_desc_sets

\* C29 witness: after a recreation for the resized window that changed the
\* image count, the last of three images is being recorded.
C29_Witness ==
    /\ pc = "record"
    /\ gen = 1
    /\ image_idx = 2
    /\ stencil_desc_pool = 1
    /\ image_extent = Extent(800, 600)

\* C30: the old swapchain is given as old_swapchain to the creation of the new
\* one and destroyed only after that creation; every swapchain created is
\* destroyed at most once, and exactly once when the Window has been dropped;
\* the Window holds no destroyed swapchain when it is in the caller's hands.
C30_SwapchainDestroyedOnce ==
    /\ Len(swapchain_destroys) = gen + 1
    /\ swapchain_ci.old_swapchain = gen - 1
    /\ \A g \in 0..gen :
          /\ swapchain_destroys[g + 1] <= 1
          /\ swapchain_destroys[g + 1] = 1 => (g < gen \/ pc = "dropped")
          /\ pc = "dropped" => swapchain_destroys[g + 1] = 1
    /\ pc \in {"idle", "exited"} \cup InDraw => swapchain_destroys[swapchain + 1] = 0

\* C31: the one-shot command buffer of create_device_local_image holds the
\* barrier UNDEFINED -> TRANSFER_DST_OPTIMAL, the copy, and the barrier
\* TRANSFER_DST_OPTIMAL -> SHADER_READ_ONLY_OPTIMAL, so the image is in
\* TRANSFER_DST_OPTIMAL when the copy executes and in SHADER_READ_ONLY_OPTIMAL
\* at the end; transition_layout accepts exactly the pairs
\* (UNDEFINED, TRANSFER_DST_OPTIMAL) and (TRANSFER_DST_OPTIMAL,
\* SHADER_READ_ONLY_OPTIMAL) and aborts on any other.
C31_TwoPairsOnly ==
    /\ selected.fn = "create_device_local_image" =>
          LET cmdlist == selected.output
              start == selected.input.initial_layout
          IN  /\ Len(cmdlist) = 3
              /\ cmdlist[2].cmd = "copy_buffer_to_image"
              /\ LayoutAfter(cmdlist, 1, start) = "TRANSFER_DST_OPTIMAL"
              /\ LayoutAfter(cmdlist, 1, start) = cmdlist[2].old_layout
              /\ LayoutAfter(cmdlist, 3, start) = "SHADER_READ_ONLY_OPTIMAL"
    /\ selected.fn = "transition_layout" =>
          (selected.output # <<>> <=>
              selected.input \in {<<"UNDEFINED", "TRANSFER_DST_OPTIMAL">>,
                                  <<"TRANSFER_DST_OPTIMAL", "SHADER_READ_ONLY_OPTIMAL">>})

\* C31 (amended): the upload protocol as above; transition_layout accepts
\* every pair whose old layout is UNDEFINED or TRANSFER_DST_OPTIMAL and whose
\* new layout is TRANSFER_DST_OPTIMAL or SHADER_READ_ONLY_OPTIMAL (four pairs),
\* records a barrier with exactly these two layouts, and aborts on any other.
C31_UploadLayoutProtocol ==
    /\ selected.fn = "create_device_local_image" =>
          LET cmdlist == selected.output
              start == selected.input.initial_layout
          IN  /\ Len(cmdlist) = 3
              /\ cmdlist[2].cmd = "copy_buffer_to_image"
              /\ LayoutAfter(cmdlist, 1, start) = "TRANSFER_DST_OPTIMAL"
              /\ LayoutAfter(cmdlist, 1, start) = cmdlist[2].old_layout
              /\ LayoutAfter(cmdlist, 2, start) = "TRANSFER_DST_OPTIMAL"
              /\ LayoutAfter(cmdlist, 3, start) = "SHADER_READ_ONLY_OPTIMAL"
    /\ selected.fn = "transition_layout" =>
          /\ selected.output # <<>> <=>
                /\ selected.input[1] \in {"UNDEFINED", "TRANSFER_DST_OPTIMAL"}
                /\ selected.input[2] \in {"TRANSFER_DST_OPTIMAL", "SHADER_READ_ONLY_OPTIMAL"}
          /\ selected.output # <<>> =>
                /\ selected.output[1].old_layout = selected.input[1]
                /\ selected.output[1].new_layout = selected.input[2]

\* C31 witness: transition_layout was called for UNDEFINED ->
\* SHADER_READ_ONLY_OPTIMAL, a pair the upload never uses, and recorded a barrier.
C31_Witness ==
    /\ selected.fn = "transition_layout"
    /\ selected.input = <<"UNDEFINED", "SHADER_READ_ONLY_OPTIMAL">>
    /\ selected.output # <<>>

\* C32: for every queued set command the primary command buffer holds the
\* barrier SHADER_READ_ONLY_OPTIMAL -> GENERAL, the dispatch for that position
\* and the barrier GENERAL -> SHADER_READ_ONLY_OPTIMAL, in this order and in
\* the order of the queue; so for any number of queued commands the voxel
\* image is in GENERAL at every dispatch and in SHADER_READ_ONLY_OPTIMAL when
\* the render pass begins and at the end of the frame.
C32_StencilGatedByLayout ==
    selected.fn = "draw.primary" =>
        LET cmdlist == selected.output
            queued == selected.input.set_cmds
            start == selected.input.layout
        IN  /\ Len(cmdlist) = 3 * Len(queued) + 3
            /\ \A k \in 1..Len(queued) :
                  /\ cmdlist[3 * k - 2].cmd = "pipeline_barrier"
                  /\ cmdlist[3 * k - 2].old_layout = "SHADER_READ_ONLY_OPTIMAL"
                  /\ cmdlist[3 * k - 2].new_layout = "GENERAL"
                  /\ cmdlist[3 * k - 1] = [cmd |-> "dispatch", push_constants |-> queued[k]]
                  /\ cmdlist[3 * k].cmd = "pipeline_barrier"
                  /\ cmdlist[3 * k].old_layout = "GENERAL"
                  /\ cmdlist[3 * k].new_layout = "SHADER_READ_ONLY_OPTIMAL"
            /\ \A n \in 1..Len(cmdlist) :
                  /\ cmdlist[n].cmd = "dispatch" =>
                        LayoutAfter(cmdlist, n - 1, start) = "GENERAL"
                  /\ cmdlist[n].cmd = "begin_render_pass" =>
                        /\ n = 3 * Len(queued) + 1
                        /\ LayoutAfter(cmdlist, n - 1, start) = "SHADER_READ_ONLY_OPTIMAL"
            /\ LayoutAfter(cmdlist, Len(cmdlist), start) = "SHADER_READ_ONLY_OPTIMAL"

\* C32 witness: a frame was recorded with three different positions queued.
C32_Witness ==
    /\ selected.fn = "draw.primary"
    /\ selected.input.set_cmds = <<<<0, 0, 5>>, <<1, 2, 3>>, <<0, 0, 5>>>>
    /\ Len(selected.output) = 12

\* C33: Drop for Gfx and Drop for Window destroy every object the constructor
\* created exactly once and in reverse creation order, every child of the
\* device before destroy_device, every allocation before the allocator is
\* destroyed, and the device before the instance.
C33_TeardownReversesCreation ==
    selected.fn = "drop" =>
        LET created == selected.input
            dropped == selected.output
            At(x) == CHOOSE i \in 1..Len(dropped) : dropped[i] = x
        IN  /\ \A i \in 1..Len(created) :
                  Cardinality({j \in 1..Len(dropped) : dropped[j] = created[i]}) = 1
            /\ Len(dropped) = Len(created)
            /\ \A i, j \in 1..Len(created) : i < j => At(created[j]) < At(created[i])
            /\ \A x \in Range(dropped) :
                  /\ (x \in {"triangle_alloc", "blocks_alloc"}) => At(x) < At("allocator")
                  /\ ("device" \in Range(dropped) /\ x \notin {"device", "instance"}) =>
                        At(x) < At("device")
                  /\ (x = "instance") => At("device") < At("instance")

\* C34: when recreate_swapchain completes, the pending flag is false, so a
\* draw call recreates the swapchain only if acquire or present raised a
\* staleness signal since the previous recreation: one signal causes one
\* rebuild, and a call that starts right after a call that recreated and got
\* no signal from acquire and present does not recreate again.
C34_OneSignalOneRebuild ==
    [][/\ (pc = "recreate" /\ pc' = "acquire") => ~recreate_swapchain'
       /\ (pc = "idle" /\ pc' = "recreate") =>
             (entry_swapchain = swapchain' \/ acq # "ok" \/ pres # "ok")]_vars

\* C35: in every reachable state a slot's frame_finished fence is unsignaled
\* only if a submission that will signal it is pending on the GPU, or draw is
\* between reset_fences and queue_submit for that slot (which it never leaves
\* without submitting); so no wait for a fence in draw, recreate_swapchain or
\* Drop is for a fence that nothing will signal.
C35_UnsignaledFenceHasSubmission ==
    \A s \in Slots :
        ~frame_data[s].frame_finished =>
            \/ InFlight(s)
            \/ pc \in {"record", "submit"} /\ cur = s

\* C36: a queued set command is neither lost nor applied twice.  set_cmds
\* changes only by set_block appending a position and by the recording step of
\* draw emptying it; it is kept by a call abandoned on an out-of-date acquire
\* and by a swapchain recreation; the recording step that drains a non-empty
\* queue records the stencil pass into the slot's primary command buffer; a
\* call that has recorded leaves the submit step only by submitting that
\* slot's buffer (a failed Vulkan call ends the call, and the program, by a
\* panic); and set_cmds is empty whenever a draw call that was not abandoned
\* returns.
C36_SetCmdsAppliedOnce ==
    [][/\ set_cmds' # set_cmds =>
             \/ pc = "idle" /\ pc' = "idle" /\ Len(set_cmds') = Len(set_cmds) + 1
                   /\ SubSeq(set_cmds', 1, Len(set_cmds)) = set_cmds
             \/ pc = "record" /\ pc' = "submit" /\ set_cmds' = <<>>
       /\ (pc = "record" /\ pc' = "submit") =>
             /\ set_cmds' = <<>>
             /\ set_cmds # <<>> => frame_data'[cur].recorded.stencil = stencil_desc_pool
             /\ set_cmds = <<>> => frame_data'[cur].recorded.stencil = NoHandle
       /\ (pc = "submit" /\ pc' \notin {"submit", "panicked"}) =>
             /\ pc' = "present"
             /\ queue' = Append(queue, [slot |-> cur, done |-> FALSE])
             /\ frame_data' = frame_data
       /\ (pc \in InDraw /\ pc' \in {"idle", "exited"} /\ acq' \in {"ok", "suboptimal"}) =>
             set_cmds' = <<>>]_vars

\* C36 witness: a position queued before the call survived the call's
\* swapchain recreation and was recorded in that call, which is about to submit.
C36_Witness ==
    /\ pc = "submit"
    /\ entry_swapchain # swapchain
    /\ frame_data[cur].recorded.stencil # NoHandle
    /\ set_cmds = <<>>

\* C37: a command buffer submitted with SubmitFuture::end is kept alive by the
\* returned Fence until the submission's fence is signaled: while the
\* submission is pending the buffer is still a live CommandBuffer, it is
\* neither on the free list nor available in the pool, and the Fence still
\* holds it, whatever other holders do and whether the Fence is waited on or
\* dropped.
C37_KeptAliveUntilSignaled ==
    submission.gpu = "pending" =>
        LET cmd == submission.cmd[1]
        IN  /\ cmd \in built
            /\ submission.resources = <<cmd>>
            /\ \A l \in Levels :
                  /\ \A i \in 1..Len(free[l]) : free[l][i] # cmd
                  /\ \A i \in 1..Len(pool.cmds[l]) : pool.cmds[l][i] # cmd

\* C38: for the thread's pool and each level, the buffers available in the
\* pool, the buffers on its free list and the buffers held by live builders or
\* built command buffers add up to primary_size / secondary_size; no buffer is
\* in two of these places at once; and a dropped CommandBuffer is on the free
\* list of its own level.
C38_PoolAccounting ==
    \A l \in Levels :
        LET avail == {pool.cmds[l][i] : i \in 1..Len(pool.cmds[l])}
            freed_l == {free[l][i] : i \in 1..Len(free[l])}
            held == {c \in builders \cup built : c[1] = l}
        IN  /\ Len(pool.cmds[l]) + Len(free[l]) + Cardinality(held) = pool.size[l]
            /\ Cardinality(avail) = Len(pool.cmds[l])
            /\ Cardinality(freed_l) = Len(free[l])
            /\ avail \cap freed_l = {}
            /\ avail \cap held = {}
            /\ freed_l \cap held = {}
            /\ builders \cap built = {}
            /\ \A c \in freed_l : c[1] = l

\* C39: a Fence is not destroyed while a submission that will signal it is
\* pending, and a Fence that is being dropped was created signaled or has been
\* given to a queue submission, so the wait in its Drop returns.
C39_DroppedFenceWasSubmitted ==
    /\ submission.fence = "destroyed" => submission.gpu = "signaled"
    /\ submission.fence \in {"unwinding", "destroyed", "panicked", "aborted"} =>
          submission.gpu \in {"pending", "signaled"}

\* C40: the command buffer get_cmds returns for image_idx was recorded against
\* the window's live framebuffer at image_idx and its live pipeline, also when
\* a recreation gave the new pipeline the handle value of the destroyed one.
C40_ReturnedBufferIsLive ==
    [][(got'.call # got.call /\ ~got'.panicked) =>
          LET idx == got'.image_idx
              cmd == got'.result[1]
          IN  /\ cmd.framebuffer = window_inner.framebuffers[idx + 1]
              /\ cmd.pipeline = window_inner.pipeline]_vars

====
